---- MODULE Spec2Model ----
(***************************************************************************)
(* A model of the zappy-rs game server: the event scheduler (event.rs),    *)
(* the core loop and its handlers (server.rs), the players (player.rs),    *)
(* the map (map.rs) and the per-connection task (connection.rs).           *)
(*                                                                         *)
(* The core loop is one task: its select picks an inbound event, a tick    *)
(* or an accept, and the chosen handler runs to completion.  update() is   *)
(* modelled as the step that opens it (spawn_resources, scheduler.tick())  *)
(* followed by one step per expired event; no other handler can run until  *)
(* update() has returned (pc = "select").                                  *)
(***************************************************************************)
EXTENDS Integers, Sequences, FiniteSets, TLC

VARIABLES
    events,          \* EventScheduler.events (a heap: modelled as a set)
    current_tick,    \* EventScheduler.current_tick
    next_event_id,   \* EventScheduler.next_event_id
    clients,         \* Server.clients: id -> Player
    pending_clients, \* Server.pending_clients (ids)
    guis,            \* Server.guis (ids)
    cells,           \* Map.map: position -> Resources
    resources,       \* Map.resources: the world totals
    eggs,            \* Map.eggs: a list of [id, team_id, pos]
    EGG_ID,          \* the static counter of Map::spawn_egg
    pc,              \* where the core loop is: "select" or "update"
    expired_events,  \* update(): the events tick() returned, not yet applied
    sent,            \* what the last step of the core loop sent: [to, kind, arg]
    applied,         \* history: the event the last step applied (or NoEvent)
    satiety_runs,    \* history: how many times reduce_satiety() has run
    skipped,         \* history: events tick() returned that update() dropped
    applied_ids,     \* history: per client, the ids of its events applied so far
    budget,          \* environment: how many inbound events may still arrive
    horizon,         \* environment: the tick after which the ticker is stopped
    tick_interval,   \* Server.tick_interval: the Interval, by its period
    global_channel,  \* Server.global_channel: the inbound queue of EventType
    conn,            \* per connection task: handler, status, its event queue
    client_rx,       \* per client: the outbound channel of ServerResponse
    CLIENT_ID        \* the static counter of Server::accept_client

vars == <<events, current_tick, next_event_id, clients, pending_clients, guis,
          cells, resources, eggs, EGG_ID, pc, expired_events, sent, applied,
          satiety_runs, skipped, applied_ids, budget, horizon,
          tick_interval, global_channel, conn, client_rx, CLIENT_ID>>

serverVars == <<events, current_tick, next_event_id, clients, pending_clients,
                guis, cells, resources, eggs, EGG_ID, pc, expired_events, sent,
                applied, satiety_runs, skipped, applied_ids>>

connVars == <<global_channel, conn, client_rx, CLIENT_ID>>

----------------------------------------------------------------------------
(* Program constants *)

MAX_SIMULTANEOUS_EVENTS == 10
NANOS_PER_SEC == 1000000000
REFILL_PER_FOOD == 126
SATIETY_LOSS_PER_TICK == 1
INCANTATION_TICKS == 300
INITIAL_FOOD == 10

\* ServerConfig.width / height: the torus the model runs on.
MapSize == [x |-> 2, y |-> 1]

\* ServerConfig.teams, by team id.
Teams == [t \in {0, 1} |-> IF t = 0 THEN "alpha" ELSE "beta"]

(* Bounds of the model *)

MaxClients == 2       \* connections accepted in one run
ShortHorizon == 9     \* ticks run by the scenarios without an incantation
LongHorizon == 310    \* ticks run by the scenarios with an incantation
InputTicks == 2       \* inbound events arrive while current_tick < InputTicks
FloodCmds == 12       \* commands one client floods the scheduler with
MaxLines == 2         \* lines the clients write, all together
ConnHorizon == 1      \* ticks run beside the connection tasks
QueueHorizon == 258   \* ticks that fill the channel of a client
MaxFreq == 60         \* the frequencies 0..MaxFreq are asked for, and a few large

----------------------------------------------------------------------------
(* resources.rs *)

Resource == {"deraumere", "linemate", "mendiane", "phiras", "sibur",
             "thystame", "food"}

\* Resources::default() and ResourcesBuilder
NoResources == [r \in Resource |-> 0]
Res(l, d, s, m, p, t) ==
    [deraumere |-> d, linemate |-> l, mendiane |-> m, phiras |-> p,
     sibur |-> s, thystame |-> t, food |-> 0]

has_at_least(available, required) ==
    \A r \in Resource : available[r] >= required[r]

\* upgrade() with the arm of Level2 mapped to Level2
upgradeStuckAtTwo(level) ==
    IF level >= 8 THEN 8 ELSE IF level = 2 THEN 2 ELSE level + 1

upgrade(level) == IF level >= 8 THEN 8 ELSE level + 1

\* LEVEL_REQUIREMENTS: defined for Level1..Level7 only; indexing it with
\* Level8 panics (HashMap's Index on a missing key).
RequirementLevels == 1..7
LEVEL_REQUIREMENTS(level) ==
    CASE level = 1 -> [players_needed |-> 1, resources |-> Res(1, 0, 0, 0, 0, 0)]
      [] level = 2 -> [players_needed |-> 2, resources |-> Res(1, 1, 1, 0, 0, 0)]
      [] level = 3 -> [players_needed |-> 2, resources |-> Res(2, 0, 1, 0, 2, 0)]
      [] level = 4 -> [players_needed |-> 4, resources |-> Res(1, 1, 2, 0, 1, 0)]
      [] level = 5 -> [players_needed |-> 4, resources |-> Res(1, 2, 1, 3, 0, 0)]
      [] level = 6 -> [players_needed |-> 6, resources |-> Res(1, 2, 3, 0, 1, 0)]
      [] level = 7 -> [players_needed |-> 6, resources |-> Res(2, 2, 2, 2, 2, 1)]

----------------------------------------------------------------------------
(* player.rs, map.rs: directions and positions *)

Direction == {"North", "East", "South", "West"}

\* the player turns round
rotate_half(d) ==
    CASE d = "North" -> "South" [] d = "East" -> "West"
      [] d = "South" -> "North" [] d = "West" -> "East"

rotate_right(d) ==
    CASE d = "North" -> "East" [] d = "East" -> "South"
      [] d = "South" -> "West" [] d = "West" -> "North"

rotate_left(d) ==
    CASE d = "North" -> "West" [] d = "East" -> "North"
      [] d = "South" -> "East" [] d = "West" -> "South"

\* impl From<Direction> for i8
DirectionI8(d) ==
    CASE d = "North" -> 1 [] d = "East" -> 2 [] d = "South" -> 3 [] d = "West" -> 4

\* Left and Right have changed places
RELATIVE_DIRECTIONS_SWAPPED(i) ==
    CASE i = 0 -> 5 [] i = 1 -> 7 [] i = 2 -> 1 [] i = 3 -> 3

\* RELATIVE_DIRECTIONS[i] converted by From<RelativeDirection> for u8:
\* Back 5, Left 3, Front 1, Right 7.
RELATIVE_DIRECTIONS(i) ==
    CASE i = 0 -> 5 [] i = 1 -> 3 [] i = 2 -> 1 [] i = 3 -> 7

\* the unit offset of a heading (Player::move_forward, Event::Eject)
Offset(d) ==
    CASE d = "North" -> <<0, 1>> [] d = "East" -> <<1, 0>>
      [] d = "South" -> <<0, -1>> [] d = "West" -> <<-1, 0>>

Positions == {<<x, y>> : x \in 0..(MapSize.x - 1), y \in 0..(MapSize.y - 1)}

\* Map::get_pos_with_offset / Player::move_player: rem_euclid on both axes
get_pos_with_offset_in(size, pos, off) ==
    <<(pos[1] + off[1]) % size.x, (pos[2] + off[2]) % size.y>>

get_pos_with_offset(pos, off) == get_pos_with_offset_in(MapSize, pos, off)

----------------------------------------------------------------------------
(* event.rs: the scheduler.  The operators work on a record w holding the  *)
(* fields a handler of the core loop can change:                           *)
(*   events, next_event_id, clients, cells, resources, eggs, EGG_ID, sent. *)
(* current_tick changes in tick() only and is read from the variable.      *)

Max(a, b) == IF a >= b THEN a ELSE b

\* Event payloads share one record shape.  `start` is history: the tick at
\* which the incantation an IncantationEnd belongs to was started.
Data(type) ==
    [type |-> type, res |-> "none", players |-> {}, level |-> 0,
     pos |-> <<0, 0>>, start |-> 0]
DataRes(type, res) == [Data(type) EXCEPT !.res = res]
IncantationEndData(players, level, pos, start) ==
    [Data("IncantationEnd") EXCEPT !.players = players, !.level = level,
                                   !.pos = pos, !.start = start]

TimedEvent(data, event_id, player_id, expiration_tick) ==
    [data |-> data, event_id |-> event_id, player_id |-> player_id,
     expiration_tick |-> expiration_tick]

NoEvent == TimedEvent(Data("none"), -1, -1, -1)

EventsOf(evs, player_id) == {e \in evs : e.player_id = player_id}

SetMax(S, default) ==
    IF S = {} THEN default ELSE CHOOSE m \in S : \A n \in S : n <= m

\* the count is right but the client's last expiration is not looked for
get_nb_events_ignoring_queue(evs, player_id) ==
    [nb_events |-> Cardinality(EventsOf(evs, player_id)),
     last_action_tick |-> current_tick]

\* get_nb_events_by_player_id: (nb_events, last_action_tick)
get_nb_events_by_player_id(evs, player_id) ==
    [nb_events |-> Cardinality(EventsOf(evs, player_id)),
     last_action_tick |->
        SetMax({e.expiration_tick : e \in EventsOf(evs, player_id)}
                   \cup {current_tick}, current_tick)]

\* the guard of schedule(): the event is rejected when it holds
CapReached(nb_events) == nb_events > MAX_SIMULTANEOUS_EVENTS

\* the expiration schedule() gives an accepted event
\* schedule() counting the cost from the current tick, as force_schedule does
ScheduleFromNow(last_tick, event_ticks) == current_tick + event_ticks

ScheduleExpiration(last_tick, event_ticks) == last_tick + event_ticks

schedule(w, data, event_ticks, player_id) ==
    LET event_id == w.next_event_id
        st == get_nb_events_by_player_id(w.events, player_id)
    IN  IF CapReached(st.nb_events)
        THEN [w EXCEPT !.next_event_id = event_id + 1]
        ELSE [w EXCEPT !.next_event_id = event_id + 1,
                       !.events = @ \cup {TimedEvent(data, event_id, player_id,
                           ScheduleExpiration(st.last_action_tick, event_ticks))}]

\* the Id schedule() returns: the id it took, or 0 when it rejects the event
schedule_returns(w, player_id) ==
    IF CapReached(get_nb_events_by_player_id(w.events, player_id).nb_events)
    THEN 0
    ELSE w.next_event_id

\* EventScheduler::cancel: every event of that id is filtered out; `found`
\* is the bool it returns
cancel(w, event_id) ==
    [w |-> [w EXCEPT !.events = {e \in @ : e.event_id # event_id}],
     found |-> \E e \in w.events : e.event_id = event_id]

force_schedule(w, data, event_ticks, player_id) ==
    LET event_id == w.next_event_id
    IN  [w EXCEPT !.next_event_id = event_id + 1,
                  !.events = @ \cup {TimedEvent(data, event_id, player_id,
                                                current_tick + event_ticks)}]

\* the new expiration tick is not clamped to current_tick
shift_client_events_unclamped(w, player_id, shift_ticks) ==
    [w EXCEPT !.events =
        {IF e.player_id = player_id
         THEN [e EXCEPT !.expiration_tick = Max(@ + shift_ticks, 0)]
         ELSE e : e \in @}]

\* shift_client_events: saturating_sub for a negative shift, saturating_add
\* otherwise (it cannot overflow at the ticks the model reaches), then
\* max(current_tick)
shift_client_events(w, player_id, shift_ticks) ==
    [w EXCEPT !.events =
        {IF e.player_id = player_id
         THEN [e EXCEPT !.expiration_tick =
                  Max(IF shift_ticks < 0 THEN Max(@ - (-shift_ticks), 0)
                      ELSE @ + shift_ticks,
                      current_tick)]
         ELSE e : e \in @}]

\* impl Ord for TimedEvent, seen from the heap's pop order: ascending
\* expiration_tick, then ascending event_id.
Before(a, b) ==
    \/ a.expiration_tick < b.expiration_tick
    \/ a.expiration_tick = b.expiration_tick /\ a.event_id < b.event_id

RECURSIVE SortEvents(_)
SortEvents(S) ==
    IF S = {} THEN <<>>
    ELSE LET first == CHOOSE a \in S : \A b \in S \ {a} : Before(a, b)
         IN  <<first>> \o SortEvents(S \ {first})

\* the events that expire at `now` exactly are left out
get_expired_before(evs, now) ==
    SortEvents({e \in evs : e.expiration_tick < now})

\* get_expired_events at tick `now`: what is popped, in pop order
get_expired_events(evs, now) ==
    SortEvents({e \in evs : e.expiration_tick <= now})

----------------------------------------------------------------------------
(* sound.rs *)

Abs(n) == IF n < 0 THEN -n ELSE n

\* get_shortest_path_torique(start, end, size)
get_shortest_path_torique_in(size, start, end) ==
    LET dx == (end[1] - start[1]) % size.x
        dy == (end[2] - start[2]) % size.y
    IN  <<IF dx > size.x \div 2 THEN dx - size.x ELSE dx,
          IF dy > size.y \div 2 THEN dy - size.y ELSE dy>>

get_shortest_path_torique(start, end) ==
    get_shortest_path_torique_in(MapSize, start, end)

\* round(atan2(dy, dx) normalised to [0, 2pi) / (pi/4)) for (dx, dy) # (0, 0):
\* the angle is within pi/8 of an axis iff the smaller leg is less than
\* tan(pi/8) = 0.41421356... times the larger one (never equal on integers).
Octant(dx, dy) ==
    LET ax == Abs(dx)
        ay == Abs(dy)
        q == IF ay * 100000000 < 41421356 * ax THEN 0
             ELSE IF ax * 100000000 < 41421356 * ay THEN 2 ELSE 1
    IN  IF dy >= 0 THEN (IF dx >= 0 THEN q ELSE 4 - q)
        ELSE (IF dx < 0 THEN 4 + q ELSE 8 - q)

\* the early return is gone: a sound from the own cell has a direction too
sound_direction_without_zero(size, emitter_pos, receiver_pos, receiver_direction) ==
    LET d == get_shortest_path_torique_in(size, receiver_pos, emitter_pos)
        rot == CASE receiver_direction = "East" -> 0
                 [] receiver_direction = "North" -> 6
                 [] receiver_direction = "South" -> 2
                 [] receiver_direction = "West" -> 4
    IN  ((Octant(d[1], d[2]) + rot) % 8) + 1

get_sound_direction_in(size, emitter_pos, receiver_pos, receiver_direction) ==
    IF emitter_pos = receiver_pos THEN 0
    ELSE LET d == get_shortest_path_torique_in(size, receiver_pos, emitter_pos)
             rot == CASE receiver_direction = "East" -> 0
                      [] receiver_direction = "North" -> 6
                      [] receiver_direction = "South" -> 2
                      [] receiver_direction = "West" -> 4
         IN  ((Octant(d[1], d[2]) + rot) % 8) + 1

get_sound_direction(emitter_pos, receiver_pos, receiver_direction) ==
    get_sound_direction_in(MapSize, emitter_pos, receiver_pos, receiver_direction)

----------------------------------------------------------------------------
(* protocol.rs: ClientSender::send_to_client.  A message is [to, kind, arg]; *)
(* kind names the AIResponse / GUIResponse / PendingResponse variant.       *)

Msg(to, kind, arg) == [to |-> to, kind |-> kind, arg |-> arg]

send_to_client(w, to, kind, arg) ==
    [w EXCEPT !.sent = Append(@, Msg(to, kind, arg))]

RECURSIVE SetToSeq(_)
SetToSeq(S) ==
    IF S = {} THEN <<>>
    ELSE LET m == CHOOSE a \in S : \A b \in S : a <= b
         IN  <<m>> \o SetToSeq(S \ {m})

RECURSIVE SendAll(_, _, _)
\* one receiver after the other, each getting the messages ms = <<kind, arg>>..
SendAll(w, tos, ms) ==
    IF tos = <<>> THEN w
    ELSE LET to == Head(tos)
             out == [i \in 1..Len(ms) |-> Msg(to, ms[i][1], ms[i][2])]
         IN  SendAll([w EXCEPT !.sent = @ \o out], Tail(tos), ms)

\* `for (.., gui) in &self.guis { gui.send_to_client(..); .. }`
GuiSend(w, ms) == SendAll(w, SetToSeq(guis), ms)

----------------------------------------------------------------------------
(* map.rs *)

nb_eggs_by_team(egs, team_id) ==
    Cardinality({i \in 1..Len(egs) : egs[i].team_id = team_id})

\* Map::add_resource: totals, then the cell, then a bct to every gui
add_resource(w, resource, amount, pos) ==
    LET w1 == [w EXCEPT !.resources[resource] = @ + amount,
                        !.cells[pos][resource] = @ + amount]
    IN  GuiSend(w1, <<<<"Bct", <<pos, w1.cells[pos]>>>>>>)

\* Cell::del_resource succeeds iff the cell holds at least `amount`
CanDel(w, resource, amount, pos) == w.cells[pos][resource] >= amount

\* the total is kept but the unit stays on the cell
del_resource_total_only(w, resource, amount, pos) ==
    IF CanDel(w, resource, amount, pos)
    THEN [w EXCEPT !.resources[resource] = @ - amount]
    ELSE w

\* Map::del_resource: nothing changes (and None is returned) unless CanDel
del_resource(w, resource, amount, pos) ==
    IF CanDel(w, resource, amount, pos)
    THEN LET w1 == [w EXCEPT !.cells[pos][resource] = @ - amount,
                             !.resources[resource] = @ - amount]
         IN  GuiSend(w1, <<<<"Bct", <<pos, w1.cells[pos]>>>>>>)
    ELSE w

\* Map::spawn_egg
spawn_egg(w, team_id, pos) ==
    [w EXCEPT !.eggs = Append(@, [id |-> w.EGG_ID, team_id |-> team_id, pos |-> pos]),
              !.EGG_ID = @ + 1]

\* Map::break_eggs_at_pos: the eggs removed, in list order
EggsAt(egs, pos) == LET at(e) == e.pos = pos IN SelectSeq(egs, at)
EggsNotAt(egs, pos) == LET notAt(e) == e.pos # pos IN SelectSeq(egs, notAt)

----------------------------------------------------------------------------
(* player.rs *)

\* PlayerBuilder::new() completed by handle_pending_events (Login)
NewPlayer(team, pos, direction) ==
    [team |-> team, pos |-> pos, direction |-> direction, elevation |-> 1,
     inventory |-> [NoResources EXCEPT !.food = INITIAL_FOOD],
     satiety |-> REFILL_PER_FOOD, state |-> "Idle"]

is_incantating(player) == player.state = "Incantating"

\* the refill is granted without taking the food
reduce_satiety_free_refill(player, reduction) ==
    LET new_satiety == Max(player.satiety - reduction, 0)
    IN  IF new_satiety = 0 /\ player.inventory.food > 0
        THEN [player EXCEPT !.satiety = new_satiety + REFILL_PER_FOOD]
        ELSE [player EXCEPT !.satiety = new_satiety]

\* the food is eaten one call late, once the satiety has been at zero
reduce_satiety_late_refill(player, reduction) ==
    IF player.satiety = 0 /\ player.inventory.food > 0
    THEN [player EXCEPT !.inventory.food = @ - 1, !.satiety = REFILL_PER_FOOD]
    ELSE [player EXCEPT !.satiety = Max(@ - reduction, 0)]

\* Player::reduce_satiety: the player after the call (its satiety is returned)
player_reduce_satiety(player, reduction) ==
    LET new_satiety == Max(player.satiety - reduction, 0)
    IN  IF new_satiety = 0 /\ player.inventory.food > 0
        THEN [player EXCEPT !.inventory.food = @ - 1,
                            !.satiety = new_satiety + REFILL_PER_FOOD]
        ELSE [player EXCEPT !.satiety = new_satiety]

\* Player::move_forward
move_forward(player) ==
    [player EXCEPT !.pos = get_pos_with_offset(@, Offset(player.direction))]

\* Map::get_pos_signed: wrap() on both axes of a signed position
get_pos_signed(size, pos) == <<pos[1] % size.x, pos[2] % size.y>>

\* the row is read in the order of its mirror image
RelPosMirrored(direction, x, y) ==
    CASE direction = "North" -> <<-x, y>>
      [] direction = "East" -> <<y, x>>
      [] direction = "South" -> <<x, -y>>
      [] direction = "West" -> <<-y, -x>>

\* Player::get_visible_positions: signed positions, not wrapped
RelPos(direction, x, y) ==
    CASE direction = "North" -> <<x, y>>
      [] direction = "East" -> <<y, -x>>
      [] direction = "South" -> <<-x, -y>>
      [] direction = "West" -> <<-y, x>>

VisibleRow(player, y) ==
    [i \in 1..(2 * y + 1) |->
        LET rel_pos == RelPos(player.direction, i - y - 1, y)
        IN  <<player.pos[1] + rel_pos[1], player.pos[2] + rel_pos[2]>>]

RECURSIVE VisibleRows(_, _)
VisibleRows(player, y) ==
    IF y > player.elevation THEN <<>>
    ELSE VisibleRow(player, y) \o VisibleRows(player, y + 1)

get_visible_positions(player) == <<player.pos>> \o VisibleRows(player, 1)

----------------------------------------------------------------------------
(* server.rs: update(), one operator per arm of `match timed_event.data`.   *)
(* Each gives [w |-> the fields after the arm, ret |-> the arm left         *)
(* update() by `return`].  An arm that finds no actor is `continue`.        *)

Cont(w) == [w |-> w, ret |-> FALSE]
Ret(w) == [w |-> w, ret |-> TRUE]

Alive(w, id) == id \in DOMAIN w.clients

Ok(w, id) == send_to_client(w, id, "Ok", "ok")
Ko(w, id) == send_to_client(w, id, "Ko", "ko")

Others(w, id) == SetToSeq(DOMAIN w.clients \ {id})

RECURSIVE BroadcastTo(_, _, _, _)
BroadcastTo(w, size, emitter, receivers) ==
    IF receivers = <<>> THEN w
    ELSE LET r == w.clients[Head(receivers)]
             dir == get_sound_direction_in(size, w.clients[emitter].pos, r.pos,
                                           r.direction)
         IN  BroadcastTo(send_to_client(w, Head(receivers), "Broadcast", dir),
                         size, emitter, Tail(receivers))

\* the Broadcast arm, on a map of size `size`
BroadcastArm(w, size, e) ==
    LET id == e.player_id
        w1 == BroadcastTo(w, size, id, Others(w, id))
        w2 == GuiSend(w1, <<<<"Pbc", id>>>>)
    IN  Cont(Ok(w2, id))

ApplyBroadcast(w, e) == BroadcastArm(w, MapSize, e)

PpoOf(w, id) ==
    <<"Ppo", <<id, w.clients[id].pos, w.clients[id].direction>>>>

ApplyForward(w, e) ==
    LET id == e.player_id
        w1 == [w EXCEPT !.clients[id] = move_forward(@)]
        w2 == Ok(w1, id)
    IN  Cont(GuiSend(w2, <<PpoOf(w2, id)>>))

ApplyRight(w, e) ==
    LET id == e.player_id
        w1 == [w EXCEPT !.clients[id].direction = rotate_right(@)]
        w2 == Ok(w1, id)
    IN  Cont(GuiSend(w2, <<PpoOf(w2, id)>>))

ApplyLeft(w, e) ==
    LET id == e.player_id
        w1 == [w EXCEPT !.clients[id].direction = rotate_left(@)]
        w2 == Ok(w1, id)
    IN  Cont(GuiSend(w2, <<PpoOf(w2, id)>>))

PlayersAt(w, pos) == {id \in DOMAIN w.clients : w.clients[id].pos = pos}

\* the Look arm: `res`, on a map `map` of size `size`
LookRes(players, map, size, id) ==
    LET visible_pos == get_visible_positions(players[id])
    IN  [i \in 1..Len(visible_pos) |->
            LET converted_pos == get_pos_signed(size, visible_pos[i])
            IN  <<Cardinality({c \in DOMAIN players :
                                  players[c].pos = converted_pos}),
                  map[converted_pos]>>]

ApplyLook(w, e) ==
    Cont(send_to_client(w, e.player_id, "Look",
                        LookRes(w.clients, w.cells, MapSize, e.player_id)))

ApplyInventory(w, e) ==
    Cont(send_to_client(w, e.player_id, "Inventory",
                        w.clients[e.player_id].inventory))

ApplyConnectNbr(w, e) ==
    Cont(send_to_client(w, e.player_id, "ConnectNbr",
                        nb_eggs_by_team(w.eggs, w.clients[e.player_id].team)))

ApplyFork(w, e) ==
    LET id == e.player_id
        egg_id == w.EGG_ID
        w1 == spawn_egg(w, w.clients[id].team, w.clients[id].pos)
        w2 == GuiSend(w1, <<<<"Pfk", id>>,
                            <<"Enw", <<egg_id, id, w.clients[id].pos>>>>>>)
    IN  Cont(Ok(w2, id))

RECURSIVE PushPlayers(_, _, _, _)
PushPlayers(w, pushed, new_pos, direction) ==
    IF pushed = <<>> THEN w
    ELSE LET id == Head(pushed)
             w1 == [w EXCEPT !.clients[id].pos = new_pos]
             pushed_dir == DirectionI8(w.clients[id].direction)
             res == RELATIVE_DIRECTIONS((direction - pushed_dir + 4) % 4)
             w2 == GuiSend(w1, <<PpoOf(w1, id)>>)
         IN  PushPlayers(send_to_client(w2, id, "Eject", res),
                         Tail(pushed), new_pos, direction)

\* the Eject arm, on a map of size `size`
EjectArm(w, size, e) ==
    LET id == e.player_id
        pusher_pos == w.clients[id].pos
        pusher_direction == w.clients[id].direction
        players_on_same_pos == SetToSeq(PlayersAt(w, pusher_pos) \ {id})
        new_pos == get_pos_with_offset_in(size, pusher_pos,
                                          Offset(pusher_direction))
        w1 == PushPlayers(w, players_on_same_pos, new_pos,
                          DirectionI8(pusher_direction))
        broken_eggs == EggsAt(w.eggs, pusher_pos)
        w2 == [w1 EXCEPT !.eggs = EggsNotAt(@, pusher_pos)]
        edi == [i \in 1..Len(broken_eggs) |-> <<"Edi", broken_eggs[i].id>>]
    IN  IF Len(players_on_same_pos) > 0 \/ Len(broken_eggs) > 0
        THEN Cont(Ok(GuiSend(w2, <<<<"Pex", id>>>> \o edi), id))
        ELSE Cont(Ko(w2, id))

ApplyEject(w, e) == EjectArm(w, MapSize, e)

ApplyTake(w, e) ==
    LET id == e.player_id
        resource == e.data.res
        pos == w.clients[id].pos
    IN  IF ~CanDel(w, resource, 1, pos) THEN Cont(Ko(w, id))
        ELSE LET w1 == del_resource(w, resource, 1, pos)
                 w2 == GuiSend(w1, <<<<"Pgt", <<id, resource>>>>,
                                     <<"Pin", <<id, pos, w1.clients[id].inventory>>>>,
                                     <<"Bct", <<pos, w1.cells[pos]>>>>>>)
                 w3 == [w2 EXCEPT !.clients[id].inventory[resource] = @ + 1]
             IN  Cont(Ok(w3, id))

ApplySet(w, e) ==
    LET id == e.player_id
        resource == e.data.res
        pos == w.clients[id].pos
    IN  IF w.clients[id].inventory[resource] < 1 THEN Cont(Ko(w, id))
        ELSE LET w1 == [w EXCEPT !.clients[id].inventory[resource] = @ - 1]
                 w2 == add_resource(w1, resource, 1, pos)
                 w3 == GuiSend(w2, <<<<"Pdr", <<id, resource>>>>,
                                     <<"Pin", <<id, pos, w2.clients[id].inventory>>>>,
                                     <<"Bct", <<pos, w2.cells[pos]>>>>>>)
             IN  Cont(Ok(w3, id))

----------------------------------------------------------------------------
(* server.rs: update(), Event::Incantation and Event::IncantationEnd *)

\* players_on_tile: same tile, not incantating, same level as the emitter
players_on_tile(w, emitter_id) ==
    {id \in DOMAIN w.clients :
        /\ w.clients[id].pos = w.clients[emitter_id].pos
        /\ ~is_incantating(w.clients[id])
        /\ w.clients[id].elevation = w.clients[emitter_id].elevation}

\* the start test with `<=` for `<` on the number of players
CanIncantStrict(w, emitter_id) ==
    LET requirement == LEVEL_REQUIREMENTS(w.clients[emitter_id].elevation)
    IN  /\ Cardinality(players_on_tile(w, emitter_id)) > requirement.players_needed
        /\ has_at_least(w.cells[w.clients[emitter_id].pos], requirement.resources)

\* the test that lets the incantation of `emitter_id` start
CanIncant(w, emitter_id) ==
    LET requirement == LEVEL_REQUIREMENTS(w.clients[emitter_id].elevation)
    IN  /\ Cardinality(players_on_tile(w, emitter_id)) >= requirement.players_needed
        /\ has_at_least(w.cells[w.clients[emitter_id].pos], requirement.resources)

\* the lockout of a participant that is not the emitter
LockOut(w, id) ==
    force_schedule(shift_client_events(w, id, INCANTATION_TICKS),
                   Data("Phantom"), INCANTATION_TICKS, id)

RECURSIVE StartIncantating(_, _, _)
\* `for id in &players_on_tile { .. }` (HashMap order: ascending id here)
StartIncantating(w, ids, emitter_id) ==
    IF ids = <<>> THEN w
    ELSE LET id == Head(ids)
             w1 == [w EXCEPT !.clients[id].state = "Incantating"]
             w2 == send_to_client(w1, id, "Incantating", "Elevation underway")
             w3 == IF id # emitter_id THEN LockOut(w2, id) ELSE w2
         IN  StartIncantating(w3, Tail(ids), emitter_id)

\* how the IncantationEnd of the emitter is put in the scheduler
ScheduleIncantationEnd(w, data, emitter_id) ==
    schedule(w, data, INCANTATION_TICKS, emitter_id)

ApplyIncantation(w, e) ==
    LET emitter_id == e.player_id
        emitter == w.clients[emitter_id]
        on_tile == players_on_tile(w, emitter_id)
    IN  IF ~CanIncant(w, emitter_id) THEN Ret(Ko(w, emitter_id))
        ELSE LET w1 == StartIncantating(w, SetToSeq(on_tile), emitter_id)
                 w2 == GuiSend(w1, <<<<"Pic", <<emitter.pos, emitter.elevation,
                                               on_tile>>>>>>)
                 new_event == IncantationEndData(on_tile, emitter.elevation,
                                                 emitter.pos, current_tick)
             IN  Cont(ScheduleIncantationEnd(w2, new_event, emitter_id))

\* players_still_on_tile: the participants that are still there
players_still_on_tile(w, data) ==
    {id \in data.players :
        /\ Alive(w, id)
        /\ is_incantating(w.clients[id])
        /\ w.clients[id].pos = data.pos}

\* the resolution test failing only when nobody is left on the tile
EndFailsWhenEmpty(w, data) ==
    LET requirement == LEVEL_REQUIREMENTS(data.level)
    IN  \/ players_still_on_tile(w, data) = {}
        \/ ~has_at_least(w.cells[data.pos], requirement.resources)

\* the test that makes the resolution fail
EndFails(w, data) ==
    LET requirement == LEVEL_REQUIREMENTS(data.level)
    IN  \/ Cardinality(players_still_on_tile(w, data)) < requirement.players_needed
        \/ ~has_at_least(w.cells[data.pos], requirement.resources)

RECURSIVE KoAll(_, _)
KoAll(w, ids) ==
    IF ids = <<>> THEN w
    ELSE KoAll(IF Alive(w, Head(ids)) THEN Ko(w, Head(ids)) ELSE w, Tail(ids))

\* Resource::iter()
ResourceIter ==
    <<"deraumere", "linemate", "mendiane", "phiras", "sibur", "thystame", "food">>

RECURSIVE ConsumeRequirement(_, _, _, _)
ConsumeRequirement(w, needed, pos, i) ==
    IF i > Len(ResourceIter) THEN w
    ELSE LET amount == needed[ResourceIter[i]]
         IN  ConsumeRequirement(
                 IF amount > 0 THEN del_resource(w, ResourceIter[i], amount, pos)
                 ELSE w, needed, pos, i + 1)

RECURSIVE LevelUp(_, _)
LevelUp(w, ids) ==
    IF ids = <<>> THEN w
    ELSE LET id == Head(ids)
             w1 == [w EXCEPT !.clients[id].elevation = upgrade(@)]
             w2 == send_to_client(w1, id, "LevelUp", w1.clients[id].elevation)
             w3 == GuiSend(w2, <<<<"Plv", <<id, w1.clients[id].elevation>>>>>>)
         IN  LevelUp(w3, Tail(ids))

ApplyIncantationEnd(w, e) ==
    LET data == e.data
        still == players_still_on_tile(w, data)
        \* the first loop already set the players still there back to Idle
        w1 == [w EXCEPT !.clients =
                 [id \in DOMAIN @ |->
                     IF id \in still THEN [@[id] EXCEPT !.state = "Idle"]
                     ELSE @[id]]]
    IN  IF EndFails(w, data)
        THEN Ret(KoAll(GuiSend(w1, <<<<"Pie", <<data.pos, FALSE>>>>>>),
                       SetToSeq(data.players)))
        ELSE LET w2 == ConsumeRequirement(
                           w1, LEVEL_REQUIREMENTS(data.level).resources, data.pos, 1)
                 w3 == LevelUp(w2, SetToSeq(still))
             IN  Cont(GuiSend(w3, <<<<"Pie", <<data.pos, TRUE>>>>>>))

\* the arms that start with `let Some(emitter) = self.clients.get_mut(..)
\* else { continue; }`
NeedsActor(type) == type \notin {"IncantationEnd", "Phantom"}

\* Event::Incantation by a Level8 player: LEVEL_REQUIREMENTS[&Level8] panics
Panics(w, e) ==
    /\ e.data.type = "Incantation"
    /\ Alive(w, e.player_id)
    /\ w.clients[e.player_id].elevation \notin RequirementLevels

ApplyEvent(w, e) ==
    LET type == e.data.type
    IN  IF NeedsActor(type) /\ ~Alive(w, e.player_id) THEN Cont(w)
        ELSE CASE type = "Broadcast" -> ApplyBroadcast(w, e)
               [] type = "Forward" -> ApplyForward(w, e)
               [] type = "Right" -> ApplyRight(w, e)
               [] type = "Left" -> ApplyLeft(w, e)
               [] type = "Look" -> ApplyLook(w, e)
               [] type = "Inventory" -> ApplyInventory(w, e)
               [] type = "ConnectNbr" -> ApplyConnectNbr(w, e)
               [] type = "Fork" -> ApplyFork(w, e)
               [] type = "Eject" -> ApplyEject(w, e)
               [] type = "Take" -> ApplyTake(w, e)
               [] type = "Set" -> ApplySet(w, e)
               [] type = "Incantation" -> ApplyIncantation(w, e)
               [] type = "IncantationEnd" -> ApplyIncantationEnd(w, e)
               [] type = "Ko" -> Cont(Ko(w, e.player_id))
               [] type = "Phantom" -> Cont(w)

----------------------------------------------------------------------------
(* server.rs: spawn_resources, reduce_satiety, handle_ai_events *)

World ==
    [events |-> events, next_event_id |-> next_event_id, clients |-> clients,
     cells |-> cells, resources |-> resources, eggs |-> eggs, EGG_ID |-> EGG_ID,
     sent |-> <<>>]

SetWorld(w) ==
    /\ events' = w.events
    /\ next_event_id' = w.next_event_id
    /\ clients' = w.clients
    /\ cells' = w.cells
    /\ resources' = w.resources
    /\ eggs' = w.eggs
    /\ EGG_ID' = w.EGG_ID
    /\ sent' = w.sent

\* the densities of spawn_resources, in hundredths
Density(r) ==
    CASE r = "food" -> 50 [] r = "linemate" -> 30 [] r = "deraumere" -> 15
      [] r = "sibur" -> 10 [] r = "mendiane" -> 10 [] r = "phiras" -> 8
      [] r = "thystame" -> 5

\* the local array `resources` of spawn_resources, in the order it is written:
\* (kind, (density * total as f64) as u64)
SpawnTable ==
    [i \in 0..6 |->
        LET kind == <<"food", "linemate", "deraumere", "sibur", "mendiane",
                      "phiras", "thystame">>[i + 1]
        IN  [kind |-> kind,
             target |-> (Density(kind) * MapSize.x * MapSize.y) \div 100]]

\* `res as usize`: the discriminant of the enum Resource
ResourceAsUsize(r) ==
    CASE r = "deraumere" -> 0 [] r = "linemate" -> 1 [] r = "mendiane" -> 2
      [] r = "phiras" -> 3 [] r = "sibur" -> 4 [] r = "thystame" -> 5
      [] r = "food" -> 6

\* resources[res as usize].1 : the array is indexed by the discriminant,
\* not searched by kind
Target(r) == SpawnTable[ResourceAsUsize(r)].target

RECURSIVE SpawnUnits(_, _, _)
\* nb_missing units of one resource, each on a cell drawn at random
SpawnUnits(ws, r, n) ==
    IF n = 0 THEN ws
    ELSE SpawnUnits({add_resource(w, r, 1, pos) : w \in ws, pos \in Positions},
                    r, n - 1)

RECURSIVE SpawnFrom(_, _)
SpawnFrom(ws, i) ==
    IF i > Len(ResourceIter) THEN ws
    ELSE LET r == ResourceIter[i]
             next == UNION {IF w.resources[r] >= Target(r) THEN {w}
                            ELSE SpawnUnits({w}, r, Target(r) - w.resources[r])
                            : w \in ws}
         IN  SpawnFrom(next, i + 1)

\* the worlds spawn_resources can leave
spawn_resources(w) == SpawnFrom({w}, 1)

RECURSIVE ReduceAll(_, _)
ReduceAll(w, ids) ==
    IF ids = <<>> THEN w
    ELSE LET id == Head(ids)
             w1 == [w EXCEPT !.clients[id] =
                                 player_reduce_satiety(@, SATIETY_LOSS_PER_TICK)]
         IN  ReduceAll(IF w1.clients[id].satiety = 0
                       THEN send_to_client(w1, id, "Dead", "dead") ELSE w1,
                       Tail(ids))

RECURSIVE PinAll(_, _)
PinAll(w, ids) ==
    IF ids = <<>> THEN w
    ELSE LET id == Head(ids)
             c == w.clients[id]
         IN  PinAll(GuiSend(w, <<<<"Pin", <<id, c.pos, c.inventory>>>>>>), Tail(ids))

\* Server::reduce_satiety; `notify`: a second has passed since last_gui_notify
reduce_satiety(w, notify) ==
    LET w1 == ReduceAll(w, SetToSeq(DOMAIN w.clients))
    IN  IF notify THEN PinAll(w1, SetToSeq(DOMAIN w1.clients)) ELSE w1

\* the second argument of schedule() in handle_ai_events
Cost(type) ==
    CASE type \in {"Broadcast", "Forward", "Right", "Left", "Look", "Take",
                   "Set", "Eject"} -> 7
      [] type = "Inventory" -> 1
      [] type = "ConnectNbr" -> 0
      [] type = "Fork" -> 42
      [] type = "Incantation" -> 0
      [] type = "Ko" -> 0

AiCommands == {"Broadcast", "Forward", "Right", "Left", "Look", "Inventory",
               "ConnectNbr", "Fork", "Eject", "Take", "Set", "Incantation"}

RemoveClient(cs, id) == [c \in DOMAIN cs \ {id} |-> cs[c]]

\* Server::handle_ai_events; action is [kind, data]: kind "Action" carries an
\* Event, "Invalid" stands for InvalidAction | ReachedTakeLimit |
\* InvalidEncoding | InvalidParameters, "Disconnected" for Disconnected.
handle_ai_events(w, id, action) ==
    CASE action.kind = "Disconnected" ->
            [GuiSend(w, <<<<"Pdi", id>>>>) EXCEPT !.clients = RemoveClient(@, id)]
      [] action.kind = "Invalid" -> schedule(w, Data("Ko"), Cost("Ko"), id)
      [] action.kind = "Action" ->
            schedule(w, action.data, Cost(action.data.type), id)

----------------------------------------------------------------------------
(* handler/ai.rs: the lines an AI client sends and what they are parsed to *)

Lines == {"Forward", "Right", "Left", "Look", "Inventory", "Connect_nbr",
          "Fork", "Eject", "Incantation", "Broadcast hello", "Take linemate",
          "Take food", "Set linemate", "Set food", "Foo"}

\* AiHandler::parse_command / validate_cmd on the lines above
validate_cmd(line) ==
    CASE line \in {"Forward", "Right", "Left", "Look", "Inventory", "Fork",
                   "Eject", "Incantation"} ->
            [kind |-> "Action", data |-> Data(line)]
      [] line = "Connect_nbr" -> [kind |-> "Action", data |-> Data("ConnectNbr")]
      [] line = "Broadcast hello" -> [kind |-> "Action", data |-> Data("Broadcast")]
      [] line = "Take linemate" ->
            [kind |-> "Action", data |-> DataRes("Take", "linemate")]
      [] line = "Take food" -> [kind |-> "Action", data |-> DataRes("Take", "food")]
      [] line = "Set linemate" ->
            [kind |-> "Action", data |-> DataRes("Set", "linemate")]
      [] line = "Set food" -> [kind |-> "Action", data |-> DataRes("Set", "food")]
      [] OTHER -> [kind |-> "Invalid", data |-> Data("none")]

\* what a connection in the AI state can put on the global channel
Inputs == Lines \cup {"<close>"}

InputAction(input) ==
    IF input = "<close>" THEN [kind |-> "Disconnected", data |-> Data("none")]
    ELSE validate_cmd(input)

----------------------------------------------------------------------------
(* The worlds the runs start from.  Each is a state the server reaches     *)
(* after logins (and, for elevation 2, one incantation); `budget` says how *)
(* many times each input may still arrive, `horizon` how long ticks run.   *)

Bag(pairs) ==
    [i \in Inputs |-> IF \E p \in pairs : p[1] = i
                      THEN (CHOOSE p \in pairs : p[1] = i)[2] ELSE 0]

PlayerAt(pos, direction, elevation) ==
    [NewPlayer(0, pos, direction) EXCEPT !.elevation = elevation]

OnePlayer(direction) == [id \in {0} |-> PlayerAt(<<0, 0>>, direction, 1)]

TwoPlayers(elevation, direction) ==
    [id \in {0, 1} |-> PlayerAt(<<0, 0>>, direction, elevation)]

CellsWith(rs) == [pos \in Positions |-> IF pos = <<0, 0>> THEN rs ELSE NoResources]

Food1 == [NoResources EXCEPT !.food = 1]

\* a player whose food is nearly or wholly eaten, two ticks from hunger
Starving(food) ==
    [PlayerAt(<<0, 0>>, "North", 1) EXCEPT !.satiety = 2, !.inventory.food = food]

\* ServerConfig: clients_nb eggs are laid per team at construction, freq
\* ticks a second
ServerConfig == [clients_nb |-> 1, freq |-> 100]

\* (1_000_000_000f64 / freq as f64) as u64: the division by 0 is +inf, which
\* the cast saturates to u64::MAX (`max`); otherwise the quotient truncated
as_nanos(freq) ==
    IF freq = 0 THEN [max |-> TRUE, nanos |-> 0]
    ELSE [max |-> FALSE, nanos |-> NANOS_PER_SEC \div freq]

\* time::interval(Duration::from_nanos(..)): the Interval, by its period
interval(freq) == [period |-> as_nanos(freq)]

Scenario(cs, gs, cl, eg, bg, hz) ==
    [clients |-> cs, guis |-> gs, cells |-> cl, eggs |-> eg, budget |-> bg,
     horizon |-> hz]

OneEgg == <<[id |-> 0, team_id |-> 0, pos |-> <<0, 0>>]>>

Scenarios ==
    { \* one client floods the scheduler
      Scenario(OnePlayer("North"), {}, CellsWith(Food1), <<>>,
               Bag({<<"Inventory", FloodCmds>>}), ShortHorizon),
      \* two clients, commands of different costs
      Scenario(TwoPlayers(1, "East"), {}, CellsWith(Food1), <<>>,
               Bag({<<"Forward", 1>>, <<"Inventory", 1>>, <<"Connect_nbr", 1>>}),
               ShortHorizon),
      Scenario(TwoPlayers(1, "East"), {2}, CellsWith(Food1), OneEgg,
               Bag({<<"Eject", 1>>, <<"Look", 1>>, <<"Foo", 1>>}), ShortHorizon),
      Scenario(TwoPlayers(1, "North"), {2},
               CellsWith([Food1 EXCEPT !.linemate = 1]), <<>>,
               Bag({<<"Take linemate", 2>>, <<"Set linemate", 1>>,
                    <<"Take food", 1>>}), ShortHorizon),
      Scenario(TwoPlayers(1, "West"), {},  CellsWith(NoResources), <<>>,
               Bag({<<"Right", 1>>, <<"Left", 1>>, <<"Broadcast hello", 1>>}),
               ShortHorizon),
      Scenario(TwoPlayers(1, "South"), {2}, CellsWith(Food1), <<>>,
               Bag({<<"Set food", 1>>, <<"Incantation", 1>>, <<"Connect_nbr", 1>>}),
               ShortHorizon),
      \* incantations
      Scenario(OnePlayer("East"), {2}, CellsWith([Food1 EXCEPT !.linemate = 1]),
               <<>>, Bag({<<"Incantation", 1>>, <<"Forward", 1>>}), LongHorizon),
      Scenario(TwoPlayers(1, "East"), {}, CellsWith([Food1 EXCEPT !.linemate = 2]),
               <<>>, Bag({<<"Incantation", 1>>, <<"<close>", 1>>, <<"Forward", 1>>}),
               LongHorizon),
      Scenario(TwoPlayers(2, "East"), {},
               CellsWith([Food1 EXCEPT !.linemate = 1, !.deraumere = 1, !.sibur = 1]),
               <<>>, Bag({<<"Incantation", 1>>, <<"Forward", 1>>, <<"<close>", 1>>}),
               LongHorizon),
      \* the start of an incantation among the commands of a participant
      Scenario(TwoPlayers(1, "West"), {}, CellsWith([Food1 EXCEPT !.linemate = 1]),
               <<>>, Bag({<<"Incantation", 1>>, <<"Forward", 2>>}), ShortHorizon),
      \* hunger: client 0 holds no food, client 1 holds one
      Scenario([id \in {0, 1} |-> Starving(id)], {2}, CellsWith(Food1), <<>>,
               Bag({<<"Inventory", 1>>}), ShortHorizon),
      \* a player at the last level
      Scenario([id \in {0} |-> PlayerAt(<<0, 0>>, "North", 8)], {}, CellsWith(Food1),
               <<>>, Bag({<<"Incantation", 1>>, <<"Inventory", 1>>}), ShortHorizon) }

RECURSIVE SumCells(_, _)
SumCells(cl, ps) ==
    IF ps = {} THEN NoResources
    ELSE LET p == CHOOSE q \in ps : TRUE
             rest == SumCells(cl, ps \ {p})
         IN  [r \in Resource |-> cl[p][r] + rest[r]]

Start(sc) ==
        /\ events = {}
        /\ current_tick = 0
        /\ next_event_id = 0
        /\ clients = sc.clients
        /\ pending_clients = {}
        /\ guis = sc.guis
        /\ cells = sc.cells
        /\ resources = SumCells(sc.cells, Positions)
        /\ eggs = sc.eggs
        /\ EGG_ID = Len(sc.eggs)
        /\ pc = "select"
        /\ expired_events = <<>>
        /\ sent = <<>>
        /\ applied = NoEvent
        /\ satiety_runs = 0
        /\ skipped = <<>>
        /\ applied_ids = [id \in DOMAIN sc.clients |-> <<>>]
        /\ budget = sc.budget
        /\ horizon = sc.horizon
        /\ tick_interval = interval(ServerConfig.freq)
        /\ global_channel = <<>>
        /\ conn = <<>>
        /\ client_rx = <<>>
        /\ CLIENT_ID = Cardinality(DOMAIN sc.clients) + Cardinality(sc.guis)

Init == \E sc \in Scenarios : Start(sc)

----------------------------------------------------------------------------
(* The steps of the core loop *)

\* select: an inbound AI event is received and handled (process_events).
\* The connection of a client that sent Disconnected sends nothing more.
RecvAiCore ==
    /\ pc = "select"
    /\ current_tick < InputTicks
    /\ \E id \in DOMAIN clients, input \in Inputs :
        /\ budget[input] > 0
        /\ budget' = [budget EXCEPT ![input] = @ - 1]
        /\ SetWorld(handle_ai_events(World, id, InputAction(input)))
    /\ applied' = NoEvent
    /\ UNCHANGED <<current_tick, pending_clients, guis, pc, expired_events,
                   satiety_runs, skipped, applied_ids, horizon, tick_interval>>

\* the end of update(): reduce_satiety()
FinishUpdate(w) ==
    /\ \E notify \in BOOLEAN : SetWorld(reduce_satiety(w, notify))
    /\ satiety_runs' = satiety_runs + 1
    /\ pc' = "select"
    /\ expired_events' = <<>>

\* select: the tick interval fires; update() runs spawn_resources and
\* scheduler.tick(), and ends at once when nothing expired.
TickCore ==
    /\ pc = "select"
    /\ current_tick < horizon
    /\ current_tick' = current_tick + 1
    /\ \E w \in spawn_resources(World) :
        LET expired == get_expired_events(w.events, current_tick + 1)
            w1 == [w EXCEPT !.events =
                      {e \in @ : e.expiration_tick > current_tick + 1}]
        IN  IF expired = <<>>
            THEN FinishUpdate(w1) /\ skipped' = skipped
            ELSE /\ SetWorld(w1)
                 /\ pc' = "update"
                 /\ expired_events' = expired
                 /\ UNCHANGED <<satiety_runs, skipped>>
    /\ applied' = NoEvent
    /\ UNCHANGED <<pending_clients, guis, applied_ids, budget, horizon,
                   tick_interval>>

IsCommand(type) == type \in AiCommands \cup {"Ko"}

\* update(): one turn of `for timed_event in expired_events`, and what
\* follows the loop when it was the last one.
ApplyCore ==
    /\ pc = "update"
    /\ LET e == Head(expired_events)
           r == ApplyEvent(World, e)
           acted == ~NeedsActor(e.data.type) \/ Alive(World, e.player_id)
       IN  /\ applied' = IF acted THEN e ELSE NoEvent
           /\ applied_ids' =
                 IF IsCommand(e.data.type) /\ Alive(World, e.player_id)
                 THEN [applied_ids EXCEPT ![e.player_id] = Append(@, e.event_id)]
                 ELSE applied_ids
           /\ IF Panics(World, e)
              THEN /\ pc' = "panicked"
                   /\ UNCHANGED <<events, next_event_id, clients, cells,
                                  resources, eggs, EGG_ID, sent, expired_events,
                                  satiety_runs, skipped>>
              ELSE IF r.ret
              THEN /\ SetWorld(r.w)
                   /\ pc' = "select"
                   /\ expired_events' = <<>>
                   /\ skipped' = skipped \o Tail(expired_events)
                   /\ UNCHANGED satiety_runs
              ELSE IF Tail(expired_events) = <<>>
              THEN \* reduce_satiety's messages follow the event's
                   /\ \E notify \in BOOLEAN :
                        SetWorld(reduce_satiety(r.w, notify))
                   /\ satiety_runs' = satiety_runs + 1
                   /\ pc' = "select"
                   /\ expired_events' = <<>>
                   /\ UNCHANGED skipped
              ELSE /\ SetWorld(r.w)
                   /\ expired_events' = Tail(expired_events)
                   /\ UNCHANGED <<pc, satiety_runs, skipped>>
    /\ UNCHANGED <<current_tick, pending_clients, guis, budget, horizon,
                   tick_interval>>

RecvAi == RecvAiCore /\ UNCHANGED connVars
Tick == TickCore /\ UNCHANGED connVars
Apply == ApplyCore /\ UNCHANGED connVars

Next == RecvAi \/ Tick \/ Apply

Spec == Init /\ [][Next]_vars

----------------------------------------------------------------------------
(* connection.rs, handler/login.rs, server.rs: the connection tasks, the  *)
(* global channel and the login exchange                                  *)

\* the lines a client writes: a team name, GRAPHIC, a command
ClientLines == {"alpha", "GRAPHIC", "Inventory"}

NoMsg == Msg(-1, "none", "")

\* ConnectionEvent
ClientMessage(line) == [ev |-> "ClientMessage", line |-> line, resp |-> NoMsg]
ClientError == [ev |-> "ClientError", line |-> "", resp |-> NoMsg]
ServerResponse(response) ==
    [ev |-> "ServerResponse", line |-> "", resp |-> response]

\* EventType: what a connection puts on the global channel
EventType(type, id, team, action) ==
    [type |-> type, id |-> id, team |-> team, action |-> action]

Disconnected == [kind |-> "Disconnected", data |-> Data("none")]

\* LoginHandler::parse_command, AiHandler::parse_command
parse_command(handler, id, line) ==
    IF handler = "Login"
    THEN EventType("Pending", id, line, [kind |-> "Login", data |-> Data("none")])
    ELSE EventType("AI", id, "", validate_cmd(line))

\* LoginHandler::create_shared_event, AiHandler::create_shared_event
create_shared_event(handler, id, action) ==
    EventType(IF handler = "Login" THEN "Pending" ELSE "AI", id, "", action)

\* LoginHandler::handle_command, AiHandler::handle_command: the CommandRes
\* ("panic": todo!() on LogAs(Graphic), unreachable!() on a Pending
\* response in the AI state)
handle_command(handler, response) ==
    IF handler = "Login"
    THEN CASE response.kind = "LogAs" ->
                 IF response.arg = "Graphic" THEN "panic" ELSE "IA"
           [] OTHER -> "Response"
    ELSE CASE response.kind \in {"LogAs", "PendingKo"} -> "panic"
           [] response.kind = "Dead" -> "DEAD"
           [] OTHER -> "Response"

\* LoginHandler::handle_command: the text written to the client, a line per
\* element; format!("{}\n{} {}\n", client_num, map_size.x, map_size.y)
login_text(response) ==
    CASE response.kind = "PendingKo" -> <<<<"ko">>>>
      [] response.kind = "LogAs" /\ response.arg # "Graphic" ->
            <<<<response.arg[1]>>, <<response.arg[2].x, response.arg[2].y>>>>
      [] OTHER -> <<<<"ko">>>>

\* accept_client: mpsc::channel::<ServerResponse>(256)
CLIENT_CHANNEL == 256

\* ClientSender::send_to_client: try_send on the client's channel, which
\* fails (and is only logged) once the connection task has ended or while
\* the channel is full
RECURSIVE Deliver(_, _, _)
Deliver(rx, cn, out) ==
    IF out = <<>> THEN rx
    ELSE LET m == Head(out)
             rx1 == IF /\ m.to \in DOMAIN cn
                       /\ cn[m.to].state = "running"
                       /\ Len(rx[m.to]) < CLIENT_CHANNEL
                    THEN [rx EXCEPT ![m.to] = Append(@, m)]
                    ELSE rx
         IN  Deliver(rx1, cn, Tail(out))

\* the egg is handed over but left in the list
RemoveNone(sq, i) == sq

RemoveAt(sq, i) == SubSeq(sq, 1, i - 1) \o SubSeq(sq, i + 1, Len(sq))

\* any line is taken for the name of a team
TeamByNameLoose(team_name) == DOMAIN Teams

TeamByName(team_name) == {t \in DOMAIN Teams : Teams[t] = team_name}

\* Map::spawn_eggs: `amount` eggs of one team, each on a cell drawn at random
RECURSIVE spawn_eggs(_, _, _)
spawn_eggs(layings, team_id, amount) ==
    IF amount = 0 THEN layings
    ELSE spawn_eggs({Append(egs, [id |-> Len(egs), team_id |-> team_id, pos |-> pos]) :
                        egs \in layings, pos \in Positions},
                    team_id, amount - 1)

RECURSIVE SpawnTeams(_, _)
SpawnTeams(layings, order) ==
    IF order = <<>> THEN layings
    ELSE SpawnTeams(spawn_eggs(layings, Head(order), ServerConfig.clients_nb),
                    Tail(order))

\* from_config: `for (team_id, ..) in &teams`, in the order the HashMap
\* happens to iterate
EggLayings ==
    UNION {SpawnTeams({<<>>}, order) :
              order \in {sq \in [1..Cardinality(DOMAIN Teams) -> DOMAIN Teams] :
                            \A i, j \in DOMAIN sq : i # j => sq[i] # sq[j]}}

ConnIds == 0..(MaxClients - 1)

\* Server::from_config, before any client is accepted; `hz` tick deadlines
\* are allowed to pass
from_config(hz) ==
    /\ events = {}
    /\ current_tick = 0
    /\ next_event_id = 0
    /\ clients = [id \in {} |-> NewPlayer(0, <<0, 0>>, "North")]
    /\ pending_clients = {}
    /\ guis = {}
    /\ cells = CellsWith(NoResources)
    /\ resources = NoResources
    /\ eggs \in EggLayings
    /\ EGG_ID = Len(eggs)
    /\ pc = "select"
    /\ expired_events = <<>>
    /\ sent = <<>>
    /\ applied = NoEvent
    /\ satiety_runs = 0
    /\ skipped = <<>>
    /\ applied_ids = [id \in ConnIds |-> <<>>]
    /\ budget = [input \in Inputs |-> 0]
    /\ horizon = hz
    /\ tick_interval = interval(ServerConfig.freq)
    /\ global_channel = <<>>
    /\ conn = [id \in ConnIds |->
                  [state |-> "none", handler |-> "Login", event_rx |-> <<>>,
                   socket |-> "none", lines |-> 0]]
    /\ client_rx = [id \in ConnIds |-> <<>>]
    /\ CLIENT_ID = 0

InitConn == from_config(ConnHorizon)

coreVars == <<events, next_event_id, clients, cells, resources, eggs, EGG_ID,
              sent>>
loopVars == <<current_tick, pc, expired_events, applied, satiety_runs, skipped,
              applied_ids, budget, horizon, tick_interval>>

\* the counter is read but not advanced
AcceptSameId ==
    /\ pc = "select"
    /\ CLIENT_ID < MaxClients
    /\ conn[CLIENT_ID].state # "running"
    /\ pending_clients' = pending_clients \cup {CLIENT_ID}
    /\ conn' = [conn EXCEPT ![CLIENT_ID].state = "running",
                            ![CLIENT_ID].socket = "open",
                            ![CLIENT_ID].handler = "Login"]
    /\ CLIENT_ID' = CLIENT_ID
    /\ UNCHANGED <<coreVars, loopVars, guis, global_channel, client_rx>>

\* select: accept_client, and Connection::new in the spawned task
Accept ==
    /\ pc = "select"
    /\ CLIENT_ID < MaxClients
    /\ pending_clients' = pending_clients \cup {CLIENT_ID}
    /\ conn' = [conn EXCEPT ![CLIENT_ID].state = "running",
                            ![CLIENT_ID].socket = "open"]
    /\ CLIENT_ID' = CLIENT_ID + 1
    /\ UNCHANGED <<coreVars, loopVars, guis, global_channel, client_rx>>

RECURSIVE LinesWritten(_)
\* the lines the clients have written so far, all together
LinesWritten(ids) ==
    IF ids = {} THEN 0
    ELSE LET id == CHOOSE i \in ids : TRUE
         IN  conn[id].lines + LinesWritten(ids \ {id})

\* the client writes a line; the reader task passes it on
ClientSends(id, line) ==
    /\ conn[id].state = "running"
    /\ conn[id].socket = "open"
    /\ LinesWritten(ConnIds) < MaxLines
    /\ conn' = [conn EXCEPT ![id].event_rx = Append(@, ClientMessage(line)),
                            ![id].lines = @ + 1]
    /\ UNCHANGED <<coreVars, loopVars, pending_clients, guis, global_channel,
                   client_rx, CLIENT_ID>>

\* the client closes; the reader task reads 0 bytes: RecvError::Closed
ClientCloses(id) ==
    /\ conn[id].state = "running"
    /\ conn[id].socket = "open"
    /\ conn' = [conn EXCEPT ![id].event_rx = Append(@, ClientError),
                            ![id].socket = "closed"]
    /\ UNCHANGED <<coreVars, loopVars, pending_clients, guis, global_channel,
                   client_rx, CLIENT_ID>>

\* spawn_server_task: one response goes from client_rx to the event queue
ServerTask(id) ==
    /\ conn[id].state = "running"
    /\ client_rx[id] # <<>>
    /\ conn' = [conn EXCEPT ![id].event_rx =
                   Append(@, ServerResponse(Head(client_rx[id])))]
    /\ client_rx' = [client_rx EXCEPT ![id] = Tail(@)]
    /\ UNCHANGED <<coreVars, loopVars, pending_clients, guis, global_channel,
                   CLIENT_ID>>

\* `break 'main` with an error: the tasks are aborted and Disconnected is
\* sent by the handler the connection has at that moment
Teardown(id, handler) ==
    /\ conn' = [conn EXCEPT ![id].state = "done", ![id].handler = handler,
                            ![id].event_rx = <<>>]
    /\ global_channel' =
          Append(global_channel, create_shared_event(handler, id, Disconnected))

\* send_response_with_timeout: may fail once the client has closed
WriteResults(id) == IF conn[id].socket = "closed" THEN BOOLEAN ELSE {TRUE}

\* Connection::handle: one turn of the 'main loop
ConnHandle(id) ==
    /\ conn[id].state = "running"
    /\ conn[id].event_rx # <<>>
    /\ LET event == Head(conn[id].event_rx)
           handler == conn[id].handler
           res == handle_command(handler, event.resp)
       IN  CASE event.ev = "ClientMessage" ->
                  /\ global_channel' =
                        Append(global_channel, parse_command(handler, id, event.line))
                  /\ conn' = [conn EXCEPT ![id].event_rx = Tail(@)]
             [] event.ev = "ClientError" -> Teardown(id, handler)
             [] event.ev = "ServerResponse" ->
                  CASE res = "panic" ->
                         /\ conn' = [conn EXCEPT ![id].state = "panicked",
                                                 ![id].event_rx = <<>>]
                         /\ UNCHANGED global_channel
                    [] res = "DEAD" -> Teardown(id, handler)
                    [] res \in {"IA", "Response"} ->
                         LET next_handler == IF res = "IA" THEN "AI" ELSE handler
                         IN  \E written \in WriteResults(id) :
                                IF written
                                THEN /\ conn' = [conn EXCEPT
                                                   ![id].handler = next_handler,
                                                   ![id].event_rx = Tail(@)]
                                     /\ UNCHANGED global_channel
                                ELSE Teardown(id, next_handler)
    /\ UNCHANGED <<coreVars, loopVars, pending_clients, guis, client_rx,
                   CLIENT_ID>>

send_ko(id) ==
    /\ sent' = <<Msg(id, "PendingKo", "ko")>>
    /\ UNCHANGED <<events, next_event_id, clients, cells, resources, eggs,
                   EGG_ID, pending_clients, guis>>

\* Server::handle_pending_events
handle_pending_events(id, team_name, action) ==
    IF id \notin pending_clients
    THEN \* "This client is not pending anymore": the event is dropped
         /\ sent' = <<>>
         /\ UNCHANGED <<events, next_event_id, clients, cells, resources, eggs,
                        EGG_ID, pending_clients, guis>>
    ELSE CASE action.kind = "Disconnected" ->
                /\ pending_clients' = pending_clients \ {id}
                /\ sent' = <<>>
                /\ UNCHANGED <<events, next_event_id, clients, cells, resources,
                               eggs, EGG_ID, guis>>
           [] action.kind = "Invalid" -> send_ko(id)
           [] action.kind = "Login" ->
                IF team_name = "GRAPHIC"
                THEN /\ pending_clients' = pending_clients \ {id}
                     /\ guis' = guis \cup {id}
                     /\ sent' = <<Msg(id, "LogAs", "Graphic")>>
                     /\ UNCHANGED <<events, next_event_id, clients, cells,
                                    resources, eggs, EGG_ID>>
                ELSE IF TeamByName(team_name) = {} THEN send_ko(id)
                ELSE LET team == CHOOSE t \in TeamByName(team_name) : TRUE
                     IN  IF nb_eggs_by_team(eggs, team) = 0 THEN send_ko(id)
                         ELSE \E i \in 1..Len(eggs), direction \in Direction :
                                /\ eggs[i].team_id = team
                                /\ LET egg == eggs[i]
                                       left == RemoveAt(eggs, i)
                                       player == NewPlayer(team, egg.pos, direction)
                                       w == send_to_client(World, id, "LogAs",
                                               <<nb_eggs_by_team(left, team), MapSize>>)
                                   IN  /\ sent' = GuiSend(w,
                                            <<<<"Pnw", <<id, egg.pos, direction, 1,
                                                         team_name>>>>,
                                              <<"Ebo", egg.id>>>>).sent
                                       /\ eggs' = left
                                       /\ clients' =
                                            [c \in DOMAIN clients \cup {id} |->
                                                IF c = id THEN player ELSE clients[c]]
                                /\ pending_clients' = pending_clients \ {id}
                                /\ UNCHANGED <<events, next_event_id, cells,
                                               resources, EGG_ID, guis>>

\* select: process_events on the next event of the global channel
ProcessEvents ==
    /\ pc = "select"
    /\ global_channel # <<>>
    /\ LET event == Head(global_channel)
       IN  IF event.type = "Pending"
           THEN handle_pending_events(event.id, event.team, event.action)
           ELSE /\ SetWorld(handle_ai_events(World, event.id, event.action))
                /\ UNCHANGED <<pending_clients, guis>>
    /\ global_channel' = Tail(global_channel)
    /\ client_rx' = Deliver(client_rx, conn, sent')
    /\ applied' = NoEvent
    /\ UNCHANGED <<current_tick, pc, expired_events, satiety_runs, skipped,
                   applied_ids, budget, horizon, tick_interval, conn,
                   CLIENT_ID>>

TickConn ==
    /\ TickCore
    /\ client_rx' = Deliver(client_rx, conn, sent')
    /\ UNCHANGED <<global_channel, conn, CLIENT_ID>>

ApplyConn ==
    /\ ApplyCore
    /\ client_rx' = Deliver(client_rx, conn, sent')
    /\ UNCHANGED <<global_channel, conn, CLIENT_ID>>

NextConn ==
    \/ Accept
    \/ \E id \in ConnIds, line \in ClientLines : ClientSends(id, line)
    \/ \E id \in ConnIds : ClientCloses(id)
    \/ \E id \in ConnIds : ServerTask(id)
    \/ \E id \in ConnIds : ConnHandle(id)
    \/ ProcessEvents
    \/ TickConn
    \/ ApplyConn

SpecConn == InitConn /\ [][NextConn]_vars

\* the first line a client writes: the name of a team, or GRAPHIC
ClientLogsIn(id, line) == conn[id].lines = 0 /\ ClientSends(id, line)

\* The clients come, log in and go while the ticker is idle
NextSession ==
    \/ Accept
    \/ \E id \in ConnIds, line \in {"alpha", "GRAPHIC"} : ClientLogsIn(id, line)
    \/ \E id \in ConnIds : ClientCloses(id)
    \/ \E id \in ConnIds : ServerTask(id)
    \/ \E id \in ConnIds : ConnHandle(id)
    \/ ProcessEvents

\* the eggs where one of the layings puts them
InitSession == InitConn /\ eggs = <<[id |-> 0, team_id |-> 0, pos |-> <<0, 0>>],
                                   [id |-> 1, team_id |-> 1, pos |-> <<0, 0>>]>>

SpecSession == InitSession /\ [][NextSession]_vars

\* The login exchange alone: what clients in the pending state write
LoginLines == {"alpha", "beta", "GRAPHIC", "Inventory"}

\* A connection whose handler is (still) LoginHandler reads a line, or the
\* close of its socket, and puts the event on the global channel
LoginLine(id, input) ==
    /\ conn[id].state = "running"
    /\ LinesWritten(ConnIds) < MaxLines
    /\ global_channel' =
          Append(global_channel,
                 IF input = "<close>"
                 THEN create_shared_event("Login", id, Disconnected)
                 ELSE parse_command("Login", id, input))
    /\ conn' = IF input = "<close>"
               THEN [conn EXCEPT ![id].state = "done", ![id].socket = "closed",
                                 ![id].lines = @ + 1]
               ELSE [conn EXCEPT ![id].lines = @ + 1]
    /\ UNCHANGED <<coreVars, loopVars, pending_clients, guis, client_rx,
                   CLIENT_ID>>

NextLogin ==
    \/ Accept
    \/ \E id \in ConnIds, input \in LoginLines \cup {"<close>"} : LoginLine(id, input)
    \/ ProcessEvents

SpecLogin == InitConn /\ [][NextLogin]_vars

\* Server::run with the readiness of its three sources told apart.  The
\* listener is ready while a client that connected waits to be accepted, the
\* interval while fewer ticks were served than deadlines have passed
\* (`horizon` counts the deadlines), the channel while it holds an event.
AcceptReady == CLIENT_ID \in ConnIds /\ conn[CLIENT_ID].state = "connecting"
TickReady == current_tick < horizon
EventReady == global_channel # <<>>

\* a client connects: it waits in the listener's queue
ClientConnects ==
    /\ CLIENT_ID \in ConnIds
    /\ conn[CLIENT_ID].state = "none"
    /\ conn' = [conn EXCEPT ![CLIENT_ID].state = "connecting"]
    /\ UNCHANGED <<coreVars, loopVars, pending_clients, guis, global_channel,
                   client_rx, CLIENT_ID>>

\* a deadline of tick_interval passes
DeadlinePasses ==
    /\ horizon < ConnHorizon
    /\ horizon' = horizon + 1
    /\ UNCHANGED <<coreVars, current_tick, pc, expired_events, applied,
                   satiety_runs, skipped, applied_ids, budget, tick_interval,
                   pending_clients, guis, global_channel, conn, client_rx,
                   CLIENT_ID>>

\* select! { biased; accept, tick, recv }: the branches are polled in the
\* order they are written and the first ready one is run
SelectAccept == AcceptReady /\ Accept
SelectTick == ~AcceptReady /\ TickReady /\ TickConn
SelectRecv == ~AcceptReady /\ ~TickReady /\ EventReady /\ ProcessEvents

NextSelect ==
    \/ ClientConnects
    \/ DeadlinePasses
    \/ \E id \in ConnIds, input \in LoginLines \cup {"<close>"} : LoginLine(id, input)
    \/ SelectAccept
    \/ SelectTick
    \/ SelectRecv

\* no deadline has passed yet
InitSelect == from_config(0)

SpecSelect == InitSelect /\ [][NextSelect]_vars

\* A server one tick before a hunger: client 0 logged in on the only egg, has
\* no food left and one unit of satiety.  Its connection is either at work in
\* the AI state, or was torn down while its login reply was on the way (the
\* Disconnected it sent as a pending client was dropped by
\* handle_pending_events), which leaves the player in the map without one.
starving(hz) ==
    /\ events = {}
    /\ current_tick = 0
    /\ next_event_id = 0
    /\ clients = [id \in {0} |->
                     [NewPlayer(0, <<0, 0>>, "North")
                         EXCEPT !.satiety = 1, !.inventory.food = 0]]
    /\ pending_clients = {}
    /\ guis = {}
    /\ cells = CellsWith(NoResources)
    /\ resources = NoResources
    /\ eggs = <<[id |-> 1, team_id |-> 1, pos |-> <<0, 0>>]>>
    /\ EGG_ID = 2
    /\ pc = "select"
    /\ expired_events = <<>>
    /\ sent = <<>>
    /\ applied = NoEvent
    /\ satiety_runs = 0
    /\ skipped = <<>>
    /\ applied_ids = [id \in ConnIds |-> <<>>]
    /\ budget = [input \in Inputs |-> 0]
    /\ horizon = hz
    /\ tick_interval = interval(ServerConfig.freq)
    /\ global_channel = <<>>
    /\ \E first \in {[state |-> "running", handler |-> "AI", event_rx |-> <<>>,
                       socket |-> "open", lines |-> 0],
                      [state |-> "done", handler |-> "Login", event_rx |-> <<>>,
                       socket |-> "closed", lines |-> 0]} :
          conn = [id \in ConnIds |->
                     IF id = 0 THEN first
                     ELSE [state |-> "none", handler |-> "Login",
                           event_rx |-> <<>>, socket |-> "none", lines |-> 0]]
    /\ client_rx = [id \in ConnIds |-> <<>>]
    /\ CLIENT_ID = 1

InitHunger == starving(ConnHorizon)

SpecHunger == InitHunger /\ [][NextConn]_vars

\* The same, with the tick interval firing once more before the server gets
\* to the channel: select! is biased towards the tick, and a tokio interval
\* that is late fires again at once.
InitDeath == starving(ConnHorizon + 1)

SpecDeath == InitDeath /\ [][NextConn]_vars

\* A starving player whose client reads nothing while the ticks go on: the
\* connection task may be held in send_response_with_timeout for 5 seconds
InitQueue == starving(QueueHorizon)

NextQueue ==
    \/ TickConn
    \/ \E id \in ConnIds : ServerTask(id)
    \/ \E id \in ConnIds : ConnHandle(id)
    \/ ProcessEvents

SpecQueue == InitQueue /\ [][NextQueue]_vars

----------------------------------------------------------------------------
(* server.rs: handle_gui_events, the time unit *)

\* the frequencies an observer asks for: `sst` takes any u64
Frequencies ==
    0..MaxFreq \cup {31622, 31623, 50001, 65535, NANOS_PER_SEC, NANOS_PER_SEC + 1}

\* GUIAction::Sgt: (1_000_000_000f64 / period.as_nanos() as f64) as u64
frequency(period) ==
    IF period.max THEN 0 ELSE NANOS_PER_SEC \div period.nanos

Sgt(id) ==
    /\ pc = "select"
    /\ id \in guis
    /\ sent' = <<Msg(id, "Sgt", frequency(tick_interval.period))>>
    /\ applied' = NoEvent
    /\ UNCHANGED <<events, current_tick, next_event_id, clients,
                   pending_clients, guis, cells, resources, eggs, EGG_ID, pc,
                   expired_events, satiety_runs, skipped, applied_ids, budget,
                   horizon, tick_interval, connVars>>

\* the period an Interval must not have: time::interval panics on it
ZeroPeriod(period) == ~period.max /\ period.nanos = 0

\* GUIAction::Sst(freq)
Sst(id, freq) ==
    /\ pc = "select"
    /\ id \in guis
    /\ IF ZeroPeriod(as_nanos(freq))
       THEN /\ pc' = "panicked"
            /\ UNCHANGED <<tick_interval, sent>>
       ELSE /\ tick_interval' = interval(freq)
            /\ sent' = <<Msg(id, "Sst", freq)>>
            /\ pc' = pc
    /\ applied' = NoEvent
    /\ UNCHANGED <<events, current_tick, next_event_id, clients,
                   pending_clients, guis, cells, resources, eggs, EGG_ID,
                   expired_events, satiety_runs, skipped, applied_ids, budget,
                   horizon, connVars>>

NextSst ==
    \/ \E id \in ConnIds, freq \in Frequencies : Sst(id, freq)
    \/ \E id \in ConnIds : Sgt(id)

\* a server with one observer and nobody else
InitSst == Start(Scenario(<<>>, {0}, CellsWith(NoResources), <<>>, Bag({}), 0))

SpecSst == InitSst /\ [][NextSst]_vars

----------------------------------------------------------------------------
(* server.rs, player.rs: Look, on a torus wide enough to tell the cells of *)
(* a row apart                                                              *)

LookSize == [x |-> 5, y |-> 4]

LookPositions ==
    {<<x, y>> : x \in 0..(LookSize.x - 1), y \in 0..(LookSize.y - 1)}

\* every cell holds what no other cell holds
LookCells ==
    [pos \in LookPositions |->
        [NoResources EXCEPT !.food = pos[1], !.linemate = pos[2]]]

ElevationLevels == 1..8

\* a looker of any level, heading and position, and a second player
InitLook ==
    \E pos \in LookPositions, direction \in Direction, level \in ElevationLevels,
       other \in {<<0, 0>>, <<3, 2>>} :
        /\ Start(Scenario([id \in {0, 1} |->
                               IF id = 0 THEN PlayerAt(pos, direction, level)
                               ELSE PlayerAt(other, "North", 1)],
                          {}, LookCells, <<>>, Bag({}), 0))

\* update(): the turn of the loop on a Look of player `id`
Look(id) ==
    /\ pc = "select"
    /\ id \in DOMAIN clients
    /\ sent' = <<Msg(id, "Look", LookRes(clients, cells, LookSize, id))>>
    /\ applied' = NoEvent
    /\ UNCHANGED <<events, current_tick, next_event_id, clients,
                   pending_clients, guis, cells, resources, eggs, EGG_ID, pc,
                   expired_events, satiety_runs, skipped, applied_ids, budget,
                   horizon, tick_interval, connVars>>

NextLook == \E id \in ConnIds : Look(id)

SpecLook == InitLook /\ [][NextLook]_vars

----------------------------------------------------------------------------
(* server.rs, map.rs: Eject, on the same torus                              *)

EjectTiles == {<<4, 3>>, <<1, 1>>}

EggSets ==
    {<<>>,
     <<[id |-> 0, team_id |-> 0, pos |-> <<4, 3>>]>>,
     <<[id |-> 0, team_id |-> 0, pos |-> <<1, 1>>]>>,
     <<[id |-> 0, team_id |-> 0, pos |-> <<4, 3>>],
       [id |-> 1, team_id |-> 1, pos |-> <<1, 1>>],
       [id |-> 2, team_id |-> 0, pos |-> <<4, 3>>]>>}

\* three players on two tiles, two of them of any heading, eggs here and
\* there, one observer
InitEject ==
    \E tiles \in [0..2 -> EjectTiles], d0 \in Direction, d1 \in Direction,
       egs \in EggSets :
        Start(Scenario([id \in 0..2 |->
                           PlayerAt(tiles[id],
                                    IF id = 0 THEN d0
                                    ELSE IF id = 1 THEN d1 ELSE "South", 1)],
                       {3}, LookCells, egs, Bag({}), 0))

\* update(): the turn of the loop on an Eject of player `id`
Eject(id) ==
    /\ pc = "select"
    /\ id \in DOMAIN clients
    /\ SetWorld(EjectArm(World, LookSize,
                         [player_id |-> id, data |-> Data("Eject")]).w)
    /\ applied' = NoEvent
    /\ UNCHANGED <<current_tick, pending_clients, guis, pc, expired_events,
                   satiety_runs, skipped, applied_ids, budget, horizon,
                   tick_interval, connVars>>

NextEject == \E id \in ConnIds : Eject(id)

SpecEject == InitEject /\ [][NextEject]_vars

----------------------------------------------------------------------------
(* server.rs, sound.rs: Broadcast, on the same torus                        *)

\* an emitter of any position and heading, two listeners
InitSound ==
    \E pos \in LookPositions, d0 \in Direction, d1 \in Direction :
        Start(Scenario([id \in 0..2 |->
                           IF id = 0 THEN PlayerAt(pos, d0, 1)
                           ELSE IF id = 1 THEN PlayerAt(<<0, 0>>, d1, 1)
                           ELSE PlayerAt(<<2, 2>>, "South", 1)],
                       {}, LookCells, <<>>, Bag({}), 0))

\* update(): the turn of the loop on a Broadcast of player `id`
Broadcast(id) ==
    /\ pc = "select"
    /\ id \in DOMAIN clients
    /\ SetWorld(BroadcastArm(World, LookSize,
                             [player_id |-> id, data |-> Data("Broadcast")]).w)
    /\ applied' = NoEvent
    /\ UNCHANGED <<current_tick, pending_clients, guis, pc, expired_events,
                   satiety_runs, skipped, applied_ids, budget, horizon,
                   tick_interval, connVars>>

NextSound == \E id \in ConnIds : Broadcast(id)

SpecSound == InitSound /\ [][NextSound]_vars

----------------------------------------------------------------------------
(* The claims *)

IsStrictlyIncreasing(sq) ==
    \A i, j \in 1..Len(sq) : i < j => sq[i] < sq[j]

\* the step is one turn of update()'s loop on an event of type `type`
Applying(type) ==
    /\ pc = "update"
    /\ Head(expired_events).data.type = type

KindsTo(out, to) == {i \in 1..Len(out) : out[i].to = to}

\* C1: every client has at most MAX_SIMULTANEOUS_EVENTS (10) events pending
\* in the scheduler, at every tick.
C1_AtMostTenPending ==
    \A id \in DOMAIN applied_ids :
        Cardinality(EventsOf(events, id)) <= MAX_SIMULTANEOUS_EVENTS

\* the commands of each client were applied in the order of their event ids
C2_InOrder ==
    \A id \in DOMAIN applied_ids : IsStrictlyIncreasing(applied_ids[id])

\* the events schedule() added in the step expire at last_tick + cost
C2_Expiration ==
    \A e \in events' \ events :
        (e.data.type # "Phantom" /\ e.event_id >= next_event_id) =>
            e.expiration_tick =
                SetMax({x.expiration_tick : x \in EventsOf(events, e.player_id)},
                       current_tick')
                + (IF e.data.type = "IncantationEnd" THEN INCANTATION_TICKS
                   ELSE Cost(e.data.type))

\* C2: an event accepted by schedule() expires at last_tick + cost, where
\* last_tick is the latest expiration among the client's pending events
\* (current_tick if it has none), and the commands of one client are applied
\* in the order it submitted them.
C2_Serialized == [](C2_InOrder) /\ [][C2_Expiration]_vars

C2_Witness ==
    \E id \in DOMAIN applied_ids :
        /\ Len(applied_ids[id]) >= 3
        /\ Cardinality(EventsOf(events, id)) >= 2

\* C3: every tick runs the whole pipeline: each event tick() returned is
\* applied and reduce_satiety() runs once, so between two updates the
\* satiety step has run once per tick and no expired event was dropped.
C3_WholePipeline ==
    pc = "select" => (satiety_runs = current_tick /\ skipped = <<>>)

\* the replies to a command
ReplyKinds == {"Ok", "Ko", "Look", "Inventory", "ConnectNbr", "Incantating",
               "Eject"}

\* C4: a command whose actor is alive when it expires produces exactly one
\* reply to that actor: the turn that applies it sends one, and no such
\* command is dropped unapplied.
C4_ExactlyOneReply ==
    /\ (applied # NoEvent /\ IsCommand(applied.data.type)) =>
          Cardinality({i \in KindsTo(sent, applied.player_id) :
                          sent[i].kind \in ReplyKinds}) = 1
    /\ \A i \in 1..Len(skipped) :
          IsCommand(skipped[i].data.type) => skipped[i].player_id \notin DOMAIN clients

\* the event just applied started an incantation
Started ==
    /\ applied.data.type = "Incantation"
    /\ \E i \in 1..Len(sent) : sent[i].kind = "Incantating"

\* C5: an incantation started at tick T has exactly one IncantationEnd in
\* the scheduler, expiring at T + 300, whatever else its initiator has
\* pending.
C5_EndAtStartPlus300 ==
    /\ \A e \in events :
          e.data.type = "IncantationEnd" =>
              e.expiration_tick = e.data.start + INCANTATION_TICKS
    /\ Started =>
          Cardinality({e \in events : /\ e.data.type = "IncantationEnd"
                                      /\ e.player_id = applied.player_id
                                      /\ e.data.start = current_tick}) = 1

\* C6: no action event of a player is applied while that player is
\* Incantating.
C6_NoActionWhileIncantating ==
    [][(pc = "update" /\ Head(expired_events).data.type \in AiCommands
        /\ Head(expired_events).player_id \in DOMAIN clients)
       => ~is_incantating(clients[Head(expired_events).player_id])]_vars

\* one turn of update() on an Incantation event, against the claimed test
C7_Step ==
    LET e == Head(expired_events)
        a == e.player_id
        L == clients[a].elevation
        P == clients[a].pos
        idle == {id \in DOMAIN clients : /\ clients[id].pos = P
                                         /\ clients[id].elevation = L
                                         /\ clients[id].state = "Idle"}
        covered == \A r \in Resource :
                      cells[P][r] >= LEVEL_REQUIREMENTS(L).resources[r]
        cond == Cardinality(idle) >= LEVEL_REQUIREMENTS(L).players_needed /\ covered
        started == \E id \in DOMAIN clients :
                      /\ clients[id].state = "Idle"
                      /\ id \in DOMAIN clients'
                      /\ clients'[id].state = "Incantating"
    IN  (Applying("Incantation") /\ a \in DOMAIN clients /\ L \in 1..7) =>
            /\ cond <=> started
            /\ ~cond => /\ sent' = <<Msg(a, "Ko", "ko")>>
                        /\ clients' = clients
                        /\ events' = events
                        /\ cells' = cells
                        /\ resources' = resources

\* C7: an Incantation event of a player of elevation L (1..7) on tile P starts
\* an incantation iff at least players_needed[L] Idle players of elevation L
\* are on P and P's resources cover resources_needed[L]; otherwise the actor
\* gets ko and no player, no scheduler entry and no resource changes.
C7_StartIff == [][C7_Step]_vars

C7_Witness ==
    /\ applied.data.type = "Incantation"
    /\ applied.player_id \in DOMAIN clients
    /\ clients[applied.player_id].state = "Incantating"
    /\ \E id \in DOMAIN clients : id # applied.player_id
                                  /\ clients[id].state = "Incantating"

\* the resolution applied by the step succeeded
Succeeded(out) == \E i \in 1..Len(out) : out[i].kind = "LevelUp"

StillThere(id, data) ==
    /\ id \in DOMAIN clients
    /\ clients[id].state = "Incantating"
    /\ clients[id].pos = data.pos

\* C8 (as claimed): a resolution succeeds only if every original participant
\* is still Incantating and on the tile (and the resources still suffice).
C8_AllParticipantsNeeded ==
    [][(Applying("IncantationEnd") /\ Succeeded(sent')) =>
          \A id \in Head(expired_events).data.players :
              StillThere(id, Head(expired_events).data)]_vars

\* C8 (amended): a resolution succeeds only if at least players_needed[L] of
\* the original participants are still Incantating and on the tile and the
\* tile's resources still meet the requirement.
C8_EnoughParticipantsNeeded ==
    [][(Applying("IncantationEnd") /\ Succeeded(sent')) =>
          LET data == Head(expired_events).data
              req == LEVEL_REQUIREMENTS(data.level)
          IN  /\ Cardinality({id \in data.players : StillThere(id, data)})
                    >= req.players_needed
              /\ \A r \in Resource : cells[data.pos][r] >= req.resources[r]]_vars

C8_Witness ==
    /\ applied.data.type = "IncantationEnd"
    /\ Succeeded(sent)
    /\ \E id \in applied.data.players : id \notin DOMAIN clients

\* one step, against the claimed effects on cells and elevations
C9_Step ==
    LET e == Head(expired_events)
        data == e.data
        req == LEVEL_REQUIREMENTS(data.level).resources
        still == {id \in data.players : StillThere(id, data)}
        sameLevel(id) == clients'[id].elevation = clients[id].elevation
    IN  /\ DOMAIN clients' \subseteq DOMAIN clients
        /\ \A id \in DOMAIN clients' :
              /\ clients'[id].elevation \in 1..8
              /\ clients'[id].elevation >= clients[id].elevation
              /\ ~sameLevel(id) =>
                    Applying("IncantationEnd") /\ Succeeded(sent')
        /\ (Applying("IncantationEnd") /\ Succeeded(sent')) =>
              /\ \A pos \in Positions, r \in Resource :
                    cells'[pos][r] =
                        cells[pos][r] - (IF pos = data.pos THEN req[r] ELSE 0)
              /\ \A id \in DOMAIN clients' :
                    clients'[id].elevation =
                        clients[id].elevation + (IF id \in still THEN 1 ELSE 0)
        /\ (Applying("IncantationEnd") /\ ~Succeeded(sent')) =>
              /\ cells' = cells
              /\ \A id \in DOMAIN clients' : sameLevel(id)

WasPromoted(id) == id \notin pending_clients /\ id \notin guis

\* C10: once the connection of a promoted AI client has been torn down and
\* the server has handled everything the connection sent, the player is no
\* longer in the live player map (its removal is what sends pdi), whenever
\* the teardown happened relative to the login exchange.
C10_TornDownPlayerRemoved ==
    \A id \in DOMAIN conn :
        (/\ conn[id].state = "done"
         /\ WasPromoted(id)
         /\ \A i \in 1..Len(global_channel) : global_channel[i].id # id)
        => id \notin DOMAIN clients

\* C11: a player whose satiety fell to zero with no food is sent "dead" and
\* is eventually removed from the live player map (its removal is what sends
\* pdi to the observers): a starved player still in the map has a connection
\* that runs, or a message of that connection that the server has yet to
\* handle.
C11_StarvedPlayerRemoved ==
    \A id \in DOMAIN clients :
        (clients[id].satiety = 0 /\ clients[id].inventory.food = 0)
        => \/ conn[id].state = "running"
           \/ \E i \in 1..Len(global_channel) : global_channel[i].id = id

\* the step is process_events on a Login of a pending client
HandlingLogin ==
    /\ global_channel # <<>>
    /\ global_channel' = Tail(global_channel)
    /\ Head(global_channel).type = "Pending"
    /\ Head(global_channel).action.kind = "Login"
    /\ Head(global_channel).id \in pending_clients

TeamNames == {Teams[t] : t \in DOMAIN Teams}

TeamId(name) == CHOOSE t \in DOMAIN Teams : Teams[t] = name

EggsOfTeam(egs, t) == {i \in 1..Len(egs) : egs[i].team_id = t}

\* C12: when a pending client sends the name of a configured team other than
\* GRAPHIC that has an egg, exactly one egg of that team is removed, the
\* client leaves the pending set and becomes a live player with the same id
\* on the cell of that egg, and its reply carries the number of eggs the team
\* has left after the removal, then the map size W H.
C12_LoginOnEgg ==
    [][LET ev == Head(global_channel)
           t == TeamId(ev.team)
       IN  (/\ HandlingLogin
            /\ ev.team # "GRAPHIC"
            /\ ev.team \in TeamNames
            /\ EggsOfTeam(eggs, t) # {})
           => \E i \in EggsOfTeam(eggs, t) :
                 /\ Len(eggs') = Len(eggs) - 1
                 /\ \A j \in 1..Len(eggs') :
                       eggs'[j] = IF j < i THEN eggs[j] ELSE eggs[j + 1]
                 /\ pending_clients' = pending_clients \ {ev.id}
                 /\ guis' = guis
                 /\ DOMAIN clients' = DOMAIN clients \cup {ev.id}
                 /\ \A c \in DOMAIN clients : clients'[c] = clients[c]
                 /\ clients'[ev.id].pos = eggs[i].pos
                 /\ clients'[ev.id].team = t
                 /\ Cardinality(KindsTo(sent', ev.id)) = 1
                 /\ \E k \in KindsTo(sent', ev.id) :
                       /\ sent'[k].kind = "LogAs"
                       /\ login_text(sent'[k]) =
                             <<<<Cardinality(EggsOfTeam(eggs, t)) - 1>>,
                               <<MapSize.x, MapSize.y>>>>]_vars

\* a client has logged in on an egg of a team that had two kinds of eggs around
C12_Witness ==
    \E id \in DOMAIN clients :
        /\ id \notin pending_clients
        /\ \E k \in 1..Len(sent) : sent[k].to = id /\ sent[k].kind = "LogAs"
        /\ Len(eggs) = Cardinality(DOMAIN Teams) * ServerConfig.clients_nb - 1

\* C13: when a pending client sends a line that is neither GRAPHIC nor a
\* configured team, or the name of a team with no egg, it is answered ko and
\* stays pending: no egg is removed, no player and no observer is created.
C13_LoginRefused ==
    [][LET ev == Head(global_channel)
       IN  (/\ HandlingLogin
            /\ ev.team # "GRAPHIC"
            /\ \/ ev.team \notin TeamNames
               \/ EggsOfTeam(eggs, TeamId(ev.team)) = {})
           => /\ sent' = <<Msg(ev.id, "PendingKo", "ko")>>
              /\ login_text(sent'[1]) = <<<<"ko">>>>
              /\ UNCHANGED <<pending_clients, eggs, clients, guis>>]_vars

\* a pending client was refused the team of an egg already taken
C13_Witness ==
    \E id \in pending_clients :
        /\ sent = <<Msg(id, "PendingKo", "ko")>>
        /\ \E t \in DOMAIN Teams : EggsOfTeam(eggs, t) = {}

\* C14: a pending client that sent GRAPHIC joins the observers with the same
\* id and its connection goes on, under the GUI handler, to answer its GUI
\* commands and pass on the notifications: the connection task of an
\* observer never aborts.
C14_ObserverIsServed ==
    \A id \in guis : conn[id].state # "panicked"

\* C15: no sequence of client inputs makes the core loop abort; in particular
\* an Incantation sent by a player of elevation 8 does not.
C15_CoreLoopNeverAborts == pc # "panicked"

RECURSIVE SumInventories(_, _, _)
\* the units of r the players `ids` of `cs` hold
SumInventories(cs, ids, r) ==
    IF ids = {} THEN 0
    ELSE LET id == CHOOSE i \in ids : TRUE
         IN  cs[id].inventory[r] + SumInventories(cs, ids \ {id}, r)

\* the units of r in the world: on the cells and in the inventories
WorldTotal(cl, cs, r) == SumCells(cl, Positions)[r] + SumInventories(cs, DOMAIN cs, r)

\* C16: the turn of update() that applies a Take of r by a live client C on
\* cell P, when P holds r, takes exactly one r from P and adds one to C's
\* inventory; a Set of r that C holds does the converse; the world total of r
\* is unchanged, no other cell, player or kind changes, and C is answered ok.
\* A Take on a cell without r, or a Set of an r not held, is answered ko and
\* changes nothing.
C16_TakeSetFrame ==
    (pc = "update" /\ Head(expired_events).data.type \in {"Take", "Set"}
       /\ Head(expired_events).player_id \in DOMAIN clients)
    => LET e == Head(expired_events)
           C == e.player_id
           r == e.data.res
           P == clients[C].pos
           take == e.data.type = "Take"
           after == ApplyEvent(World, e).w
           possible == IF take THEN cells[P][r] >= 1
                       ELSE clients[C].inventory[r] >= 1
           d == IF take THEN 1 ELSE 0 - 1
           replies == {i \in 1..Len(after.sent) : after.sent[i].to = C}
       IN  /\ after.eggs = eggs /\ after.events = events
           /\ Cardinality(replies) = 1
           /\ IF possible
              THEN /\ after.cells = [cells EXCEPT ![P][r] = @ - d]
                   /\ after.clients = [clients EXCEPT ![C].inventory[r] = @ + d]
                   /\ \A k \in Resource :
                         WorldTotal(after.cells, after.clients, k) =
                            WorldTotal(cells, clients, k)
                   /\ \A i \in replies : after.sent[i].kind = "Ok"
              ELSE /\ after.cells = cells
                   /\ after.clients = clients
                   /\ \A i \in replies : after.sent[i].kind = "Ko"

\* a Take has just moved a unit from the cell to the inventory of its client
C16_Witness ==
    /\ applied.data.type = "Take"
    /\ applied.player_id \in DOMAIN clients
    /\ \E i \in 1..Len(sent) : sent[i].to = applied.player_id /\ sent[i].kind = "Ok"
    /\ clients[applied.player_id].inventory[applied.data.res] >= 1
    /\ cells[clients[applied.player_id].pos][applied.data.res] = 0

\* what the step adds to the world total of r
Delta(r) == WorldTotal(cells', clients', r) - WorldTotal(cells, clients, r)

\* the step is a tick: update() has run spawn_resources
Ticking == current_tick' = current_tick + 1

\* the units of r the step's successful incantation took from its tile
Consumed(r) ==
    IF Applying("IncantationEnd") /\ Succeeded(sent')
    THEN LEVEL_REQUIREMENTS(Head(expired_events).data.level).resources[r]
    ELSE 0

\* the food eaten in the step: one by each player whose satiety was refilled
Eaten(r) ==
    IF r = "food"
    THEN Cardinality({id \in DOMAIN clients \cap DOMAIN clients' :
                         clients'[id].satiety > clients[id].satiety})
    ELSE 0

\* the units of r that left with the players removed in the step
Removed(r) == SumInventories(clients, DOMAIN clients \ DOMAIN clients', r)

\* the units of r that came with the players created in the step
Joined(r) == SumInventories(clients', DOMAIN clients' \ DOMAIN clients, r)

\* C17 (as claimed): for each kind, the total over cells and inventories
\* changes only by refill spawning, which increases it, and by the
\* consumption of a successful incantation, which decreases it.
C17_OnlySpawnAndIncantation ==
    [][\A r \in Resource :
          IF Ticking THEN Delta(r) >= 0 ELSE Delta(r) = 0 - Consumed(r)]_vars

\* C17 (amended): for each kind, the total over cells and inventories changes
\* only by refill spawning (up), by the consumption of a successful
\* incantation (down), by a player eating one food when its satiety reaches
\* zero (down by one), by the inventory a new player starts with (up) and by
\* the inventory a removed player leaves with (down).
C17_TotalAccounted ==
    [][\A r \in Resource :
          LET rest == Delta(r) + Consumed(r) + Eaten(r) + Removed(r) - Joined(r)
          IN  IF Ticking THEN rest >= 0 ELSE rest = 0]_vars

\* a player has just eaten: its satiety was refilled by reduce_satiety
C17_Witness ==
    /\ satiety_runs >= 1
    /\ \E id \in DOMAIN clients :
          clients[id].satiety = REFILL_PER_FOOD /\ clients[id].inventory.food = 0

\* floor(density * W * H), with the density the kind is meant to have
ClaimedTarget(r) ==
    LET hundredths == [food |-> 50, linemate |-> 30, deraumere |-> 15,
                       sibur |-> 10, mendiane |-> 10, phiras |-> 8, thystame |-> 5]
    IN  (hundredths[r] * MapSize.x * MapSize.y) \div 100

\* C18: after the respawn step of a tick, the cells hold of each kind at
\* least floor(density * W * H) units (food 0.5, linemate 0.3, deraumere 0.15,
\* sibur 0.1, mendiane 0.1, phiras 0.08, thystame 0.05): a kind below its
\* target is brought exactly to it, a kind at or above it gets nothing.
C18_RefilledToDensity ==
    [][Ticking =>
          \A r \in Resource :
             SumCells(cells', Positions)[r] =
                Max(SumCells(cells, Positions)[r], ClaimedTarget(r))]_vars

\* the step is a tick on which no event expired: update() is spawn_resources
\* followed by the satiety-loss step
QuietTick == Ticking /\ pc' = "select"

ScheduledBefore(e1, e2) ==
    /\ e1.player_id = e2.player_id
    /\ e1.event_id < e2.event_id

InScheduleOrder(e1, e2) ==
    /\ e1.expiration_tick <= e2.expiration_tick
    /\ e1.expiration_tick = e2.expiration_tick => e1.event_id < e2.event_id

C21_AppliedInIdOrder ==
    pc = "update" =>
        IsStrictlyIncreasing([i \in 1..Len(expired_events) |->
                                 expired_events[i].event_id])

\* C22: the core loop serves its ready sources in the order inbound events >
\* tick interval > accept: while an inbound event is ready, no tick and no
\* new connection is served, and while a tick is ready, no new connection is.
C22_EventsThenTickThenAccept ==
    [][/\ (pc = "select" /\ EventReady) =>
             (current_tick' = current_tick /\ CLIENT_ID' = CLIENT_ID)
       /\ (pc = "select" /\ TickReady) => CLIENT_ID' = CLIENT_ID]_vars

\* the kinds of the messages of `out` addressed to `to`, in the order sent
KindsSentTo(out, to) ==
    LET mine == SelectSeq(out, LAMBDA m : m.to = to)
    IN  [i \in 1..Len(mine) |-> mine[i].kind]

\* C23: the turn of update() that applies a successful Set sends to every
\* observer pdr, then pin for the player, then bct for the cell, and nothing
\* else.
C23_SetNotifiesPdrPinBct ==
    (/\ pc = "update"
     /\ Head(expired_events).data.type = "Set"
     /\ Head(expired_events).player_id \in DOMAIN clients
     /\ clients[Head(expired_events).player_id]
            .inventory[Head(expired_events).data.res] >= 1)
    => \A g \in guis :
          KindsSentTo(ApplyEvent(World, Head(expired_events)).w.sent, g) =
             <<"Pdr", "Pin", "Bct">>

\* C24: at any scheduler state, schedule(..) followed by cancel(id) with the
\* id schedule returned leaves the pending events as they were before the
\* schedule call (the current tick is touched by neither).
C24_ScheduleThenCancel ==
    \A player_id \in DOMAIN clients, type \in {"Inventory", "Forward"} :
        LET id == schedule_returns(World, player_id)
            scheduled == schedule(World, Data(type), Cost(type), player_id)
        IN  cancel(scheduled, id).w.events = events

\* C25: 0 is a reserved sentinel, returned when schedule rejects an event: no
\* accepted event is ever given event_id 0, and accepted ids are distinct.
C25_ZeroIsReserved ==
    /\ \A e \in events : e.event_id # 0
    /\ \A e1, e2 \in events :
          e1.event_id = e2.event_id => e1 = e2

\* C26: an event that expires under the player_id of a client that has
\* disconnected has no effect: the turn of update() that takes it changes
\* nothing in the world, sends nothing, and goes on to the next event.
C26_DisconnectedEventsInert ==
    (pc = "update" /\ Head(expired_events).player_id \notin DOMAIN clients)
    => /\ ApplyEvent(World, Head(expired_events)).w = World
       /\ ~ApplyEvent(World, Head(expired_events)).ret

\* C27: once a player has died (its satiety reached 0 and the dead signal was
\* dispatched), update() applies none of its commands (the turn that takes
\* one changes nothing and sends nothing), and no later satiety-loss step
\* dispatches the dead signal to it again.
C27_DeadPlayerInert ==
    [][\A id \in DOMAIN clients :
          clients[id].satiety = 0 =>
             /\ (/\ pc = "update"
                 /\ Head(expired_events).player_id = id
                 /\ IsCommand(Head(expired_events).data.type))
                => ApplyEvent(World, Head(expired_events)).w = World
             /\ satiety_runs' # satiety_runs
                => \A k \in 1..Len(sent') :
                      ~(sent'[k].to = id /\ sent'[k].kind = "Dead")]_vars

CellAhead(player, k, j) ==
    LET ahead == Offset(player.direction)
        right == Offset(rotate_right(player.direction))
    IN  <<(player.pos[1] + k * ahead[1] + (j - k) * right[1]) % LookSize.x,
          (player.pos[2] + k * ahead[2] + (j - k) * right[2]) % LookSize.y>>

\* what Look tells of the cell at pos: its players and its resources
Seen(pos) ==
    <<Cardinality({id \in DOMAIN clients : clients[id].pos = pos}), cells[pos]>>

\* C29: the Look of a player of elevation L returns (L+1)^2 cells: first the
\* player's own cell, then for k = 1..L the 2k+1 cells that lie k ahead of
\* it, from its left to its right, every position wrapped on the torus.
C29_LookCells ==
    \A i \in 1..Len(sent) :
        sent[i].kind = "Look" =>
            LET player == clients[sent[i].to]
                L == player.elevation
                res == sent[i].arg
            IN  /\ Len(res) = (L + 1) * (L + 1)
                /\ res[1] = Seen(player.pos)
                /\ \A k \in 1..L : \A j \in 0..(2 * k) :
                      res[k * k + j + 1] = Seen(CellAhead(player, k, j))

\* a player of level 8 heading West has looked from the corner of the map
C29_Witness ==
    /\ sent # <<>>
    /\ sent[1].kind = "Look"
    /\ sent[1].to = 0
    /\ clients[0].elevation = 8
    /\ clients[0].direction = "West"
    /\ clients[0].pos = <<0, 0>>
    /\ Len(sent[1].arg) = 81

\* the sector a push of heading H comes from, for a player of heading D:
\* 1 ahead of it, 3 on its left, 5 behind it, 7 on its right
Sector(H, D) ==
    LET from == rotate_right(rotate_right(H))
    IN  IF from = D THEN 1
        ELSE IF from = rotate_left(D) THEN 3
        ELSE IF from = rotate_right(D) THEN 7
        ELSE 5

\* what the step sent to `to`, of the kinds in `kinds`
ToldTo(out, to, kinds) ==
    SelectSeq(out, LAMBDA m : m.to = to /\ m.kind \in kinds)

\* C30: an Eject by a player at P of heading H moves every other player on
\* P to (P + unit(H)) mod size, leaves the pusher and the players elsewhere
\* where they are, changes no heading, removes every egg on P and no other,
\* tells each pushed player the sector of the push relative to its own
\* heading, and answers the pusher ok iff a player was pushed or an egg
\* broken, ko otherwise.
C30_Eject ==
    [][\E a \in DOMAIN clients :
          LET P == clients[a].pos
              H == clients[a].direction
              pushed == {id \in DOMAIN clients \ {a} : clients[id].pos = P}
              target == <<(P[1] + Offset(H)[1]) % LookSize.x,
                          (P[2] + Offset(H)[2]) % LookSize.y>>
              broken == {i \in 1..Len(eggs) : eggs[i].pos = P}
          IN  /\ DOMAIN clients' = DOMAIN clients
              /\ \A id \in pushed :
                    /\ clients'[id].pos = target
                    /\ ToldTo(sent', id, {"Eject", "Ok", "Ko"})
                          = <<Msg(id, "Eject", Sector(H, clients[id].direction))>>
              /\ \A id \in DOMAIN clients \ pushed :
                    /\ clients'[id].pos = clients[id].pos
                    /\ ToldTo(sent', id, {"Eject"}) = <<>>
              /\ \A id \in DOMAIN clients :
                    clients'[id].direction = clients[id].direction
              /\ eggs' = SelectSeq(eggs, LAMBDA egg : egg.pos # P)
              /\ ToldTo(sent', a, {"Ok", "Ko"}) =
                    IF pushed # {} \/ broken # {}
                    THEN <<Msg(a, "Ok", "ok")>> ELSE <<Msg(a, "Ko", "ko")>>]_vars

\* a player heading East has pushed one heading North over the edge of the
\* map and broken two eggs
C30_Witness ==
    /\ \E i \in 1..Len(sent) : sent[i] = Msg(1, "Eject", 3)
    /\ \E i \in 1..Len(sent) : sent[i] = Msg(0, "Ok", "ok")
    /\ clients[0].pos = <<4, 3>>
    /\ clients[0].direction = "East"
    /\ clients[1].pos = <<0, 3>>
    /\ clients[1].direction = "North"
    /\ Len(eggs) = 1

\* the directions the broadcast that filled `out` gave to player `to`
Heard(out, to) ==
    LET mine == SelectSeq(out, LAMBDA m : m.to = to /\ m.kind = "Broadcast")
    IN  [i \in 1..Len(mine) |-> mine[i].arg]

\* C31: each player other than the emitter of a broadcast is told one sound
\* direction, 0 iff it stands on the emitter's cell and a value of 1..8
\* otherwise, and it is told the same whatever the emitter's heading.
C31_SoundDirection ==
    \A a \in DOMAIN clients :
        (\E i \in 1..Len(sent) : sent[i] = Msg(a, "Ok", "ok")) =>
            \A r \in DOMAIN clients \ {a} :
                /\ Len(Heard(sent, r)) = 1
                /\ Heard(sent, r)[1] \in 0..8
                /\ Heard(sent, r)[1] = 0 <=> clients[r].pos = clients[a].pos
                /\ \A d \in Direction :
                      Heard(BroadcastArm([World EXCEPT !.clients[a].direction = d],
                                         LookSize,
                                         [player_id |-> a,
                                          data |-> Data("Broadcast")]).w.sent,
                            r) = Heard(sent, r)

\* a broadcast was heard on the emitter's cell and across the edge of the map
C31_Witness ==
    /\ \E i \in 1..Len(sent) : sent[i] = Msg(0, "Ok", "ok")
    /\ clients[0].pos = <<0, 0>>
    /\ clients[0].direction = "West"
    /\ Heard(sent, 1) = <<0>>
    /\ Len(Heard(sent, 2)) = 1
    /\ Heard(sent, 2)[1] \in 1..8

\* the heading n quarter turns to the right of d on the cycle
\* North, East, South, West
Turned(d, n) ==
    LET cycle == <<"North", "East", "South", "West">>
        at == CHOOSE i \in 1..4 : cycle[i] = d
    IN  cycle[((at - 1 + n) % 4) + 1]

\* the step is the turn of update() on an event of type `type` of player id
ApplyingOf(type, id) ==
    /\ Applying(type)
    /\ Head(expired_events).player_id = id

\* C32: Right turns a heading one step along North, East, South, West,
\* North and Left one step back, so that four Rights, four Lefts, and a
\* Right followed by a Left give the heading back; no other step changes the
\* heading of a player.
C32_RightLeft ==
    [][\A id \in DOMAIN clients \cap DOMAIN clients' :
          LET d == clients[id].direction
              e == Head(expired_events)
              right(w) == ApplyRight(w, e).w
              left(w) == ApplyLeft(w, e).w
          IN  /\ ApplyingOf("Right", id) =>
                    /\ clients'[id].direction = Turned(d, 1)
                    /\ right(right(right(right(World)))).clients[id].direction = d
                    /\ left(right(World)).clients[id].direction = d
              /\ ApplyingOf("Left", id) =>
                    /\ clients'[id].direction = Turned(d, 3)
                    /\ left(left(left(left(World)))).clients[id].direction = d
                    /\ right(left(World)).clients[id].direction = d
              /\ ~(ApplyingOf("Right", id) \/ ApplyingOf("Left", id)) =>
                    clients'[id].direction = d]_vars

\* of two players heading West one has turned right and the other left
C32_Witness ==
    /\ applied.data.type \in {"Right", "Left"}
    /\ \E a, b \in DOMAIN clients :
          /\ clients[a].direction = "North"
          /\ clients[b].direction = "South"

\* C33: tick() adds exactly 1 to current_tick, takes from the queue exactly
\* the entries whose expiration_tick <= current_tick and returns them by
\* ascending expiration_tick, then ascending event_id; current_tick never
\* decreases, and no pending event has an expiration_tick < current_tick,
\* whatever was scheduled, force-scheduled or shifted since.
C33_Tick ==
    [][/\ current_tick' \in {current_tick, current_tick + 1}
       /\ \A e \in events' : e.expiration_tick >= current_tick'
       /\ Ticking =>
             LET due == {e \in events : e.expiration_tick <= current_tick'}
                 returned == IF pc' = "update" THEN expired_events' ELSE <<>>
             IN  /\ {returned[i] : i \in 1..Len(returned)} = due
                 /\ Len(returned) = Cardinality(due)
                 /\ {e \in events' : e.event_id \in {d.event_id : d \in events}}
                       = events \ due
                 /\ \A i, j \in 1..Len(returned) :
                       i < j =>
                          \/ returned[i].expiration_tick < returned[j].expiration_tick
                          \/ /\ returned[i].expiration_tick = returned[j].expiration_tick
                             /\ returned[i].event_id < returned[j].event_id]_vars

\* a tick has returned two events of different expiration ticks
C33_Witness ==
    /\ pc = "update"
    /\ Len(expired_events) >= 2
    /\ expired_events[1].expiration_tick < expired_events[2].expiration_tick
    /\ expired_events[2].expiration_tick = current_tick

\* the shifts asked of shift_client_events
ShiftTicks == {-400, -1, 0, 300}

\* the event of id `event_id` in a queue
EventOfId(evs, event_id) == CHOOSE e \in evs : e.event_id = event_id

\* shift_client_events(player_id, shift_ticks) moves every event of
\* player_id to max(e + shift_ticks, current_tick) and touches nothing else
ShiftFrame(player_id, shift_ticks) ==
    LET after == shift_client_events(World, player_id, shift_ticks)
    IN  /\ {e.event_id : e \in after.events} = {e.event_id : e \in events}
        /\ Cardinality(after.events) = Cardinality(events)
        /\ after.next_event_id = next_event_id
        /\ \A e \in events :
              EventOfId(after.events, e.event_id) =
                 IF e.player_id = player_id
                 THEN [e EXCEPT !.expiration_tick =
                          IF e.expiration_tick + shift_ticks >= current_tick
                          THEN e.expiration_tick + shift_ticks ELSE current_tick]
                 ELSE e

\* the pairs of player_id's events whose pop order the shift turns round
Reordered(player_id, shift_ticks) ==
    LET after == shift_client_events(World, player_id, shift_ticks).events
    IN  {<<e1, e2>> \in events \X events :
            /\ e1.player_id = player_id
            /\ e2.player_id = player_id
            /\ Before(e1, e2)
            /\ ~Before(EventOfId(after, e1.event_id), EventOfId(after, e2.event_id))}

\* C34 (as claimed): shift_client_events(pid, D) replaces the expiration_tick
\* e of every pending event of pid by max(e + D, current_tick) for positive
\* and negative D, keeps the relative order of pid's events, and leaves the
\* other clients' events, the ids, and the number of pending events as they
\* were.
C34_ShiftKeepsOrder ==
    \A player_id \in DOMAIN clients, shift_ticks \in ShiftTicks :
        /\ ShiftFrame(player_id, shift_ticks)
        /\ Reordered(player_id, shift_ticks) = {}

\* C34 (amended): the same, but the relative order of pid's events is kept
\* for D >= 0 only; for D < 0 two events change places only when both are
\* clamped to current_tick, where they are ordered by event_id.
C34_ShiftKeepsOrderUnlessClamped ==
    \A player_id \in DOMAIN clients, shift_ticks \in ShiftTicks :
        /\ ShiftFrame(player_id, shift_ticks)
        /\ \A pair \in Reordered(player_id, shift_ticks) :
              /\ shift_ticks < 0
              /\ pair[1].expiration_tick + shift_ticks <= current_tick
              /\ pair[2].expiration_tick + shift_ticks <= current_tick
              /\ pair[2].event_id < pair[1].event_id

\* a client has two events pending of which the later filed expires first,
\* and a third party's event is pending too
C34_Witness ==
    \E e1, e2, e3 \in events :
        /\ e1.player_id = e2.player_id
        /\ e1.expiration_tick < e2.expiration_tick
        /\ e1.event_id > e2.event_id
        /\ e3.player_id # e1.player_id

\* C35: for each kind of resource the map's world totals equal the sum of
\* that kind over the cells; add_resource and a successful del_resource
\* change the cell and the totals by the same amount, and a del_resource that
\* fails changes neither.
C35_TotalsMirrorCells ==
    /\ resources = SumCells(cells, DOMAIN cells)
    /\ pc = "update" =>
       \A r \in Resource, pos \in DOMAIN cells :
          LET added == add_resource(World, r, 1, pos)
              deleted == del_resource(World, r, 1, pos)
          IN  /\ added.resources = SumCells(added.cells, DOMAIN cells)
              /\ added.cells[pos][r] = cells[pos][r] + 1
              /\ deleted.resources = SumCells(deleted.cells, DOMAIN cells)
              /\ deleted.cells[pos][r] =
                    IF cells[pos][r] >= 1 THEN cells[pos][r] - 1 ELSE cells[pos][r]

\* stones were taken twice and one was put down again
C35_Witness ==
    /\ applied.data.type = "Set"
    /\ applied.data.res = "linemate"
    /\ resources.linemate >= 1
    /\ budget["Take linemate"] = 0

\* the ids the server holds in one of its three collections
Held == pending_clients \cup DOMAIN clients \cup guis

\* C36: a client id is in at most one of pending_clients, clients and guis;
\* an id enters the players or the observers only from pending_clients, an
\* id that left pending_clients never comes back to it, and the id a new
\* connection is given was never given before.
C36_OneCollectionPerId ==
    [][/\ pending_clients' \cap DOMAIN clients' = {}
       /\ pending_clients' \cap guis' = {}
       /\ DOMAIN clients' \cap guis' = {}
       /\ (DOMAIN clients' \ DOMAIN clients) \cup (guis' \ guis) \subseteq pending_clients
       /\ pending_clients' \ pending_clients \subseteq {CLIENT_ID}
       /\ pending_clients' # pending_clients \cup {CLIENT_ID} => CLIENT_ID' = CLIENT_ID
       /\ pending_clients' \ pending_clients # {} => CLIENT_ID' = CLIENT_ID + 1
       /\ \A id \in Held' : id < CLIENT_ID']_vars

\* client 0 has played and left, client 1 has come after it
C36_Witness ==
    /\ conn[0].handler = "AI"
    /\ conn[0].state = "done"
    /\ 0 \notin Held
    /\ 1 \in Held

\* C37: when the IncantationEnd of an incantation has been applied, each of
\* its participants that is still a player is Idle again, whether the
\* resolution succeeded or failed and wherever the participant stands.
C37_IdleAfterEnd ==
    [][Applying("IncantationEnd") =>
          \A id \in Head(expired_events).data.players :
              id \in DOMAIN clients' => clients'[id].state = "Idle"]_vars

\* C38: the pin sent to the observers for a successful Take carries the
\* inventory the player has after the Take, the unit taken included, as the
\* bct sent with it carries the cell after the removal.
C38_PinAfterTake ==
    (Applying("Take") /\ Head(expired_events).player_id \in DOMAIN clients) =>
        LET id == Head(expired_events).player_id
            out == ApplyEvent(World, Head(expired_events)).w
        IN  \A i \in 1..Len(out.sent) :
               /\ out.sent[i].kind = "Pin" =>
                     out.sent[i].arg[3] = out.clients[id].inventory
               /\ out.sent[i].kind = "Bct" =>
                     out.sent[i].arg[2] = out.cells[out.clients[id].pos]

\* C39: no line of a client that the server has made a player or an observer
\* reaches the server as a login attempt: the event the server takes from its
\* channel is a Login only for a client that is still pending.
C39_NoLoginOnceLogged ==
    (global_channel # <<>> /\ Head(global_channel).action.kind = "Login") =>
        Head(global_channel).id \in pending_clients

\* the responses of one server step that are addressed to `to`
ToldIn(out, to) == LET told(m) == m.to = to IN SelectSeq(out, told)

\* C40: every response the server addresses to a player whose connection
\* runs is put on that player's channel, whatever the channel holds.
C40_ReplyQueued ==
    [][(current_tick' # current_tick \/ pc = "update"
            \/ (global_channel # <<>> /\ global_channel' = Tail(global_channel))) =>
          \A id \in DOMAIN clients' :
              conn[id].state = "running" =>
                  client_rx'[id] = client_rx[id] \o ToldIn(sent', id)]_vars

====
